---------------------------- MODULE Spec2Model ----------------------------
(***************************************************************************)
(* Telemetry aggregation of jake-blog (internal/blog): the storage cells    *)
(* of LocalTelemetryStorage, the percentile estimator over the fixed        *)
(* request-duration histogram, and MetricsExporter.Export writing into it.  *)
(*                                                                          *)
(* Arithmetic.  The code computes the target rank as                        *)
(*     float64(totalCount*percentile) / 100                                 *)
(* where the product is an int64 product (it wraps) and everything after    *)
(* it is float64.  The model keeps the wrap of the product and evaluates    *)
(* the float64 expressions exactly, as rationals n/d with d > 0.  The       *)
(* int64 is modelled with Int64Bits bits instead of 64, so that the model   *)
(* checker's own integers can carry the products; MaxInt64 and the wrap     *)
(* are defined from Int64Bits exactly as for 64 bits.                       *)
(***************************************************************************)
EXTENDS Integers, Sequences, FiniteSets, TLC

\* ------------------------------------------------------------------ bounds
\* width of the modelled int64 / uint64
Int64Bits == 16
\* largest total count and largest bucket count of the generated histograms
MaxTotal == 6
MaxCount == 3
\* number of metric points exported in one run
MaxPoints == 2
\* number of Write calls in one run, and how many of their spans cannot be
\* serialized
MaxSpans == 12
MaxBadSpans == 1
\* number of cost fetches in one run
MaxFetches == 3
\* number of article requests in one run
MaxRequests == 3
\* number of TriggerUpdate calls made from outside the listener, and of
\* SIGHUP signals, in one run
MaxTriggers == 3
MaxSignals == 2

\* ------------------------------------------------------- integer conversions
RECURSIVE Pow2(_)
Pow2(n) == IF n = 0 THEN 1 ELSE 2 * Pow2(n - 1)

MaxInt64 == Pow2(Int64Bits - 1) - 1
MaxUint64 == Pow2(Int64Bits) - 1

\* the value of an int64 product: two's complement wrap-around
WrapInt64(x) == ((x + Pow2(Int64Bits - 1)) % Pow2(Int64Bits)) - Pow2(Int64Bits - 1)

MulInt64(a, b) == WrapInt64(a * b)

\* math.Round of the rational k + r/d (d > 0, 0 <= r < d): nearest integer,
\* halves away from zero
RoundHalfAway(k, r, d) ==
    IF k >= 0
    THEN (IF 2 * r >= d THEN k + 1 ELSE k)
    ELSE (IF 2 * r > d THEN k + 1 ELSE k)

\* ------------------------------------------------------------- the histogram
reqFreqBound == <<5, 10, 25, 50, 75, 100, 250, 500, 750, 1000, 2500, 5000, 7500, 10000>>

NumBuckets == Len(reqFreqBound)

Buckets == 1..NumBuckets

lastBound == reqFreqBound[NumBuckets]

previousBound(i) == IF i = 1 THEN 0 ELSE reqFreqBound[i - 1]

\* boundaryToIndex: the bucket of a boundary in milliseconds, 0 when it has none
boundaryToIndex(ms) ==
    IF \E i \in Buckets : reqFreqBound[i] = ms
    THEN CHOOSE i \in Buckets : reqFreqBound[i] = ms
    ELSE 0

Percentiles == <<50, 90, 95, 99>>

\* float64(totalCount*percentile): the numerator of the target rank; the
\* target itself is this over 100
targetCount(totalCount, percentile) == MulInt64(totalCount, percentile)

\* runningCount >= target, both as floats: compared over the denominator 100
reachesTarget(runningCount, target) == 100 * runningCount >= target

\* int64(math.Round(lowerBound + fraction*(upperBound-lowerBound))) with
\* fraction = (target/100 - (runningCount - count)) / count.  A walk stops with
\* a target above the count before the bucket, or (negative target) at the
\* first bucket, so the rounded value lies within MaxInt64/20 of zero and the
\* conversion to int64 is exact.
interpolate(lowerBound, upperBound, target, runningCount, count) ==
    LET n == (target - 100 * (runningCount - count)) * (upperBound - lowerBound)
        d == 100 * count
    IN  RoundHalfAway(lowerBound + (n \div d), n % d, d)

\* the value returned for the bucket at which a walk stops
bucketResult(i, target, runningCount, count) ==
    IF count > 0
    THEN interpolate(previousBound(i), reqFreqBound[i], target, runningCount, count)
    ELSE reqFreqBound[i]

\* the loop of calcPercentile from bucket i on, runningCount being the sum of
\* the buckets before i
RECURSIVE walkPercentile(_, _, _, _)
walkPercentile(buckets, target, i, runningCount) ==
    IF i > NumBuckets
    THEN lastBound
    ELSE LET count == buckets[i]
             running == runningCount + count
         IN  IF reachesTarget(running, target)
             THEN bucketResult(i, target, running, count)
             ELSE walkPercentile(buckets, target, i + 1, running)

\* calcPercentile returns (value, error); the error is nil on every path
calcPercentile(totalCount, buckets, percentile) ==
    IF totalCount = 0
    THEN [val |-> 0, err |-> "nil"]
    ELSE [val |-> walkPercentile(buckets, targetCount(totalCount, percentile), 1, 0),
          err |-> "nil"]

\* ---- calcPercentiles: the four percentiles in one pass over the buckets
\* the pass's locals: the four targets, results[], found and runningCount
walkStart(totalCount) ==
    [targets |-> [k \in 1..4 |-> targetCount(totalCount, Percentiles[k])],
     results |-> <<0, 0, 0, 0>>,
     found |-> 0,
     runningCount |-> 0]

\* the inner loop: for found < 4 && runningCount >= targets[found] { ... found++ }
RECURSIVE fillFound(_, _, _)
fillFound(w, i, count) ==
    IF w.found < 4 /\ reachesTarget(w.runningCount, w.targets[w.found + 1])
    THEN fillFound([w EXCEPT
                      !.results[w.found + 1] =
                          IF count > 0
                          THEN interpolate(previousBound(i), reqFreqBound[i],
                                           w.targets[w.found + 1], w.runningCount, count)
                          ELSE reqFreqBound[i],
                      !.found = w.found + 1],
                   i, count)
    ELSE w

\* one iteration of the outer loop: bucket i holding count
walkBucket(w, i, count) ==
    fillFound([w EXCEPT !.runningCount = w.runningCount + count], i, count)

\* for found < 4 { results[found] = lastBound; found++ }
walkFinish(w) ==
    [k \in 1..4 |-> IF k <= w.found THEN w.results[k] ELSE lastBound]

RECURSIVE walkPercentiles(_, _, _)
walkPercentiles(buckets, w, i) ==
    IF i > NumBuckets
    THEN walkFinish(w)
    ELSE LET w2 == walkBucket(w, i, buckets[i])
         IN  IF w2.found = 4 THEN w2.results ELSE walkPercentiles(buckets, w2, i + 1)

calcPercentiles(totalCount, buckets) ==
    IF totalCount = 0
    THEN <<0, 0, 0, 0>>
    ELSE walkPercentiles(buckets, walkStart(totalCount), 1)

\* ------------------------------------------------------------------- state
VARIABLES
    \* LocalTelemetryStorage: the histogram and its cached percentiles
    reqDurTotalCount, reqDurBucketValues, reqDur50, reqDur90, reqDur95, reqDur99,
    \* the plain gauges and sums
    numGoRo, heapAlloc, stackAlloc, articlesServed, reqBlocked, roboticVisitors,
    \* the shard maps (attribute value -> *atomic.Int64, NoShard when the key is
    \* absent), the atomic.Int64 objects they point to, and for each map
    \* whether a map assignment is in progress (the runtime's hashWriting flag)
    servedCountPerArticle, reqBlockedByReason, shardValue, mapWriting,
    \* freqUpdateMu: the task holding it, NoTask when free
    freqUpdateMu,
    \* the tasks inside Export: where each is, its locals, what its last
    \* Export returned; the data points the Export calls have taken so far,
    \* in order (histogram metrics count as one, with all their points); and
    \* how the process ended, if it did ("panic": index out of range in
    \* Export, "fatal": the runtime's concurrent map access check)
    pc, cur, ret, exported, fault,
    \* the HTTP handler inside writeMetricSnippet: where it is, its locals
    \* (the map it is on, the keys it collected, its place in them, the
    \* counter it looked up) and the lines it has written (label, value);
    \* and what the exporter had taken, and whether it was between two
    \* points, when the handler was entered
    rpc, rd, page, rstart,
    \* the span pipeline: the buffered channel, the latest-span slot (written
    \* and read in two parts), spanMu, the cancellation signal, the consumer
    \* goroutine (position, the span it received) and one GetLastSpanJSON call
    \* (position, the parts read, the result)
    spanChan, latestSpan, spanMu, ctxDone, cpc, cspan, jpc, jread, jret,
    \* what Write was called with so far: the number of calls (a span is
    \* named by the number of its call), the spans dropped, the last span
    \* queued, the number of spans that cannot be serialized, and the number
    \* of spans the consumer received
    nWritten, dropped, lastQueued, nBad, nTaken,
    \* the cost report: lts.cfg, the cached fragment, costMu, the two outcome
    \* counters; the refresher goroutine (position, the outcome of its fetch,
    \* what the fragment and the counters were when the fetch was made); the
    \* fetches that have returned, the fragments assigned so far; and one
    \* CostSnippet call (position, the fragment read, the fragment last served
    \* and how many were)
    cfg, costHTML, costMu, costSuccess, costFailure, kpc, kfetch, ksnap,
    nFetches, stores, qpc, qhtml, served,
    \* the runtime sampler goroutine: its position, and what it recorded last
    \* on its three gauges (with the sizes it had read)
    mpc, rec,
    \* the article counter of the OTel SDK (the sum recorded without
    \* attributes, and per article attribute), one Article request
    \* (position, the article asked for), the requests answered so far (by
    \* article, "missing" for the ones answered 404), and what the periodic
    \* reader collected last (with the number of requests answered and of
    \* points exported at that moment)
    viewsTotal, viewsBy, apc, aname, answered, collected,
    \* BlogManager: the number of values in updateChan and in the listener's
    \* sighup channel, the listener goroutine's position, and what has
    \* happened so far (TriggerUpdate calls from outside, signals delivered,
    \* sends that went through, sends dropped, receives from updateChan,
    \* updateContent calls that returned)
    updateChan, sighup, lpc, upd,
    \* the results of the calcPercentile calls made on the histogram
    \* (percentile -> (value, error)), and of the last calcPercentiles call
    pctOut, pctsOut

histVars == <<reqDurTotalCount, reqDurBucketValues>>
cacheVars == <<reqDur50, reqDur90, reqDur95, reqDur99>>
gaugeVars == <<numGoRo, heapAlloc, stackAlloc>>
sumVars == <<articlesServed, reqBlocked, roboticVisitors>>
shardVars == <<servedCountPerArticle, reqBlockedByReason, shardValue, mapWriting>>
storageVars == <<histVars, cacheVars, gaugeVars, sumVars, shardVars, freqUpdateMu>>
taskVars == <<pc, cur, ret, exported, fault>>
renderVars == <<rpc, rd, page, rstart>>
pctVars == <<pctOut, pctsOut>>
spanVars == <<spanChan, latestSpan, spanMu, ctxDone, cpc, cspan, jpc, jread, jret,
              nWritten, dropped, lastQueued, nBad, nTaken>>
costVars == <<cfg, costHTML, costMu, costSuccess, costFailure, kpc, kfetch, ksnap,
              nFetches, stores, qpc, qhtml, served>>
samplerVars == <<mpc, rec>>
viewVars == <<viewsTotal, viewsBy, apc, aname, answered, collected>>
managerVars == <<updateChan, sighup, lpc, upd>>
backgroundVars == <<spanVars, costVars, samplerVars, viewVars, managerVars, managerVars>>
vars == <<storageVars, taskVars, renderVars, pctVars, backgroundVars>>

NotCalled == [val |-> -1, err |-> "not called"]

\* NewLocalTelemetryStorage: every atomic.Int64 starts at 0
ZeroBuckets == [i \in Buckets |-> 0]

\* ------------------------------------------------------------ input values
\* attribute values of the attributed sums (article names, block reasons)
Keys == {"x", "y"}
\* values of gauge and sum points
Values == {1, 2}

NoShard == 0
NoTask == 0
Exporters == {1, 2}

NoAttr == [key |-> "none", val |-> "none"]
Attrs == {NoAttr} \cup [key : {"article", "blocked"}, val : Keys]

\* the attributes the points of a sum metric come with: none, the metric's
\* own attribute with each value, or (articles.served, robotic.visitors)
\* another metric's attribute
AttrsOf(name) ==
    IF name = "articles.served"
    THEN {NoAttr, [key |-> "blocked", val |-> "x"]} \cup [key : {"article"}, val : Keys]
    ELSE IF name = "request.blocked"
    THEN {NoAttr} \cup [key : {"blocked"}, val : Keys]
    ELSE IF name = "robotic.visitors"
    THEN {NoAttr, [key |-> "article", val |-> "x"]}
    ELSE {NoAttr}

GaugeNames == {"goroutine.count", "blog.heap.alloc.bytes", "blog.stack.alloc.bytes",
               "unknown.gauge"}
\* "goroutine.count" is a name Export knows for gauges only
SumNames == {"articles.served", "request.blocked", "robotic.visitors", "goroutine.count"}
HistNames == {"http.server.request.duration", "unknown.histogram"}

\* histogram data points: Count, Bounds and BucketCounts.  A bound is given
\* in microseconds (the float64 bound in seconds is that many millionths);
\* Count and BucketCounts are uint64
PointCumulative ==
    [count |-> 10, bounds |-> <<5000, 10000, 25000, 50000, 75000, 100000>>,
     bucketCounts |-> <<5, 3, 2, 0, 0, 0, 0>>]
PointFirst == [count |-> 5, bounds |-> <<5000, 10000>>, bucketCounts |-> <<3, 2, 0>>]
PointSecond == [count |-> 15, bounds |-> <<5000, 10000>>, bucketCounts |-> <<10, 5, 0>>]
PointConversion ==
    [count |-> 5, bounds |-> <<1000, 2500, 5000>>, bucketCounts |-> <<1, 2, 2, 0>>]
PointInvalid ==
    [count |-> 5, bounds |-> <<1000, 3000, 7000>>, bucketCounts |-> <<1, 2, 2, 0>>]
PointShortCounts ==
    [count |-> 5, bounds |-> <<5000, 10000, 25000, 50000>>, bucketCounts |-> <<3, 2>>]
PointZeroTotal == [count |-> 0, bounds |-> <<10000>>, bucketCounts |-> <<4, 0>>]
PointHuge ==
    [count |-> MaxUint64, bounds |-> <<5000, 10000>>, bucketCounts |-> <<1, MaxUint64, 0>>]

HistPoints ==
    { PointCumulative, PointFirst, PointSecond, PointConversion, PointInvalid,
      PointShortCounts, PointZeroTotal, PointHuge }

\* the DataPoints of one histogram metric with data: one or two points
HistPointSeqs ==
    {<<a>> : a \in HistPoints}
       \cup {<<PointFirst, PointSecond>>, <<PointSecond, PointFirst>>}

NoPoint == [count |-> 0, bounds |-> <<>>, bucketCounts |-> <<>>]
NoWalk == [targets |-> <<>>, results |-> <<>>, found |-> 0, runningCount |-> 0]

\* a task's locals while it is not inside a metric
NoLocals ==
    [kind |-> "none", name |-> "none", key |-> "none", value |-> 0,
     point |-> NoPoint, i |-> 0, w |-> NoWalk, results |-> <<>>]

\* the handler's locals outside the two shard listings
NoRender == [map |-> "none", seen |-> {}, keys |-> <<>>, i |-> 0, counter |-> NoShard]

\* ------------------------------------------------------------------ Init
\* NewLocalTelemetryStorage: empty maps, zeroed atomics
StorageInit ==
    /\ reqDur50 = 0 /\ reqDur90 = 0 /\ reqDur95 = 0 /\ reqDur99 = 0
    /\ numGoRo = 0 /\ heapAlloc = 0 /\ stackAlloc = 0
    /\ articlesServed = 0 /\ reqBlocked = 0 /\ roboticVisitors = 0
    /\ servedCountPerArticle = [k \in Keys |-> NoShard]
    /\ reqBlockedByReason = [k \in Keys |-> NoShard]
    /\ shardValue = <<>>
    /\ mapWriting = {}
    /\ freqUpdateMu = NoTask

TasksInit ==
    /\ pc = [e \in Exporters |-> "idle"]
    /\ cur = [e \in Exporters |-> NoLocals]
    /\ ret = [e \in Exporters |-> "none"]
    /\ exported = <<>>
    /\ fault = "none"
    /\ rpc = "idle"
    /\ rd = NoRender
    /\ page = <<>>
    /\ rstart = [taken |-> 0, quiet |-> TRUE]

\* the span a zero-value SpanStub is, and a span as Write's n-th call gives it
ZeroSpanId == 0
Span(n, encodable) == [id |-> n, enc |-> encodable]
ZeroSpan == Span(ZeroSpanId, TRUE)

\* the slot holding span sp whole
Slot(sp) == [head |-> sp.id, tail |-> sp.id, enc |-> sp.enc]

NoResult == [data |-> <<>>, err |-> "none"]

\* NewLocalTelemetryStorage and Start: empty channel, zero-value slot, the
\* consumer at its select
SpanInit ==
    /\ spanChan = <<>>
    /\ latestSpan = Slot(ZeroSpan)
    /\ spanMu = [writer |-> FALSE, pending |-> FALSE, readers |-> 0]
    /\ ctxDone = FALSE
    /\ cpc = "select"
    /\ cspan = ZeroSpan
    /\ jpc = "idle"
    /\ jread = Slot(ZeroSpan)
    /\ jret = NoResult
    /\ nWritten = 0
    /\ dropped = <<>>
    /\ lastQueued = ZeroSpanId
    /\ nBad = 0
    /\ nTaken = 0

NoFetch == [err |-> "none", costs |-> "none"]
NoSnapshot == [html |-> <<>>, success |-> 0, failure |-> 0, periodic |-> FALSE,
               previous |-> NoFetch]

\* NewLocalTelemetryStorage: costHTML is []byte{}; Start has not been called
CostInit ==
    /\ cfg = "unset"
    /\ costHTML = <<>>
    /\ costMu = [writer |-> FALSE, pending |-> FALSE, readers |-> 0]
    /\ costSuccess = 0
    /\ costFailure = 0
    /\ kpc = "idle"
    /\ kfetch = NoFetch
    /\ ksnap = NoSnapshot
    /\ nFetches = 0
    /\ stores = <<>>
    /\ qpc = "idle"
    /\ qhtml = <<>>
    /\ served = [html |-> <<>>, n |-> 0]

NoSample == [goroutines |-> 0, heap |-> 0, stack |-> 0, heapRead |-> 0, stackRead |-> 0]

\* Start: the sampler goroutine is at its select, nothing recorded yet
SamplerInit ==
    /\ mpc = "select"
    /\ rec = NoSample

NoCollection == [total |-> 0, by |-> [k \in Keys |-> 0], answered |-> 0, taken |-> 0]

\* no request answered, nothing recorded on the counter, nothing collected
ViewsInit ==
    /\ viewsTotal = 0
    /\ viewsBy = [k \in Keys |-> 0]
    /\ apc = "idle"
    /\ aname = "none"
    /\ answered = [k \in Keys \cup {"missing"} |-> 0]
    /\ collected = NoCollection

\* NewBlogManager: updateChan: make(chan struct{}, 1), empty; no listener yet
UpdateChanCap == 1
SighupChanCap == 1

ManagerInit ==
    /\ updateChan = 0
    /\ sighup = 0
    /\ lpc = "off"
    /\ upd = [triggers |-> 0, signals |-> 0, queued |-> 0, dropped |-> 0,
              consumed |-> 0, refreshes |-> 0]

BackgroundInit == SpanInit /\ CostInit /\ SamplerInit /\ ViewsInit /\ ManagerInit

Init ==
    /\ reqDurTotalCount = 0
    /\ reqDurBucketValues = ZeroBuckets
    /\ StorageInit
    /\ TasksInit
    /\ BackgroundInit
    /\ pctOut = [k \in 1..4 |-> NotCalled]
    /\ pctsOut = <<>>

\* ------------------------------------------------- MetricsExporter.Export
\* One Export call walks its batch metric by metric and point by point; each
\* action below is one step of it, at most one access to shared storage.
\* The batch is revealed as the walk goes: the metric (or point) an action
\* takes is the next one of the batch, and ExportReturn is the batch's end.

safeUint64ToInt64(val) == IF val > MaxInt64 THEN MaxInt64 ELSE val

\* variant: the milliseconds are rounded to the nearest
boundMsRounded(us) == (us + 500) \div 1000

\* int(bval * 1000) for a bound of us microseconds: milliseconds, truncated
boundMs(us) == us \div 1000

At(e, where) == fault = "none" /\ pc[e] = where

Goto(e, where, locals) ==
    /\ pc' = [pc EXCEPT ![e] = where]
    /\ cur' = [cur EXCEPT ![e] = locals]

\* the shard map a sum point goes to: "article", "blocked", or "none" when
\* the point goes to the unattributed total
shardMapOf(name, attr) ==
    IF name = "articles.served" /\ attr.key = "article" THEN "article"
    ELSE IF name = "request.blocked" /\ attr.key = "blocked" THEN "blocked"
    ELSE "none"

mapOfTask(e) == IF cur[e].name = "articles.served" THEN "article" ELSE "blocked"

shardMap(m) == IF m = "article" THEN servedCountPerArticle ELSE reqBlockedByReason

ExportCall(e) ==
    /\ At(e, "idle")
    /\ pc' = [pc EXCEPT ![e] = "metrics"]
    /\ ret' = [ret EXCEPT ![e] = "none"]
    /\ UNCHANGED <<storageVars, cur, exported, fault, renderVars, pctVars, backgroundVars>>

ExportReturn(e) ==
    /\ At(e, "metrics")
    /\ pc' = [pc EXCEPT ![e] = "idle"]
    /\ ret' = [ret EXCEPT ![e] = "nil"]
    /\ UNCHANGED <<storageVars, cur, exported, fault, renderVars, pctVars, backgroundVars>>

\* case metricdata.Gauge[int64] / case metricdata.Sum[int64]: enter the point loop
PointsMetric(e, kind, name) ==
    /\ At(e, "metrics")
    /\ Goto(e, "points", [NoLocals EXCEPT !.kind = kind, !.name = name])
    /\ UNCHANGED <<storageVars, ret, exported, fault, renderVars, pctVars, backgroundVars>>

\* the point loop's end
EndPoints(e) ==
    /\ At(e, "points")
    /\ Goto(e, "metrics", NoLocals)
    /\ UNCHANGED <<storageVars, ret, exported, fault, renderVars, pctVars, backgroundVars>>

\* variant: a gauge of any other name is taken for the goroutine count
GaugePointWithDefault(e, value) ==
    /\ At(e, "points")
    /\ cur[e].kind = "gauge"
    /\ Len(exported) < MaxPoints
    /\ exported' = Append(exported, [kind |-> "gauge", name |-> cur[e].name,
                                     value |-> value, attr |-> NoAttr])
    /\ numGoRo' = IF cur[e].name \notin {"blog.heap.alloc.bytes", "blog.stack.alloc.bytes"}
                  THEN value ELSE numGoRo
    /\ heapAlloc' = IF cur[e].name = "blog.heap.alloc.bytes" THEN value ELSE heapAlloc
    /\ stackAlloc' = IF cur[e].name = "blog.stack.alloc.bytes" THEN value ELSE stackAlloc
    /\ UNCHANGED <<histVars, cacheVars, sumVars, shardVars, freqUpdateMu,
                   pc, cur, ret, fault, renderVars, pctVars, backgroundVars>>

GaugePoint(e, value) ==
    /\ At(e, "points")
    /\ cur[e].kind = "gauge"
    /\ Len(exported) < MaxPoints
    /\ exported' = Append(exported, [kind |-> "gauge", name |-> cur[e].name,
                                     value |-> value, attr |-> NoAttr])
    /\ numGoRo' = IF cur[e].name = "goroutine.count" THEN value ELSE numGoRo
    /\ heapAlloc' = IF cur[e].name = "blog.heap.alloc.bytes" THEN value ELSE heapAlloc
    /\ stackAlloc' = IF cur[e].name = "blog.stack.alloc.bytes" THEN value ELSE stackAlloc
    /\ UNCHANGED <<histVars, cacheVars, sumVars, shardVars, freqUpdateMu,
                   pc, cur, ret, fault, renderVars, pctVars, backgroundVars>>

\* a sum point stored into the unattributed total (or ignored, by its name)
SumPointPlain(e, value, attr) ==
    /\ At(e, "points")
    /\ cur[e].kind = "sum"
    /\ shardMapOf(cur[e].name, attr) = "none"
    /\ Len(exported) < MaxPoints
    /\ exported' = Append(exported, [kind |-> "sum", name |-> cur[e].name,
                                     value |-> value, attr |-> attr])
    /\ articlesServed' = IF cur[e].name = "articles.served" THEN value ELSE articlesServed
    /\ reqBlocked' = IF cur[e].name = "request.blocked" THEN value ELSE reqBlocked
    /\ roboticVisitors' = IF cur[e].name = "robotic.visitors" THEN value ELSE roboticVisitors
    /\ UNCHANGED <<histVars, cacheVars, gaugeVars, shardVars, freqUpdateMu,
                   pc, cur, ret, fault, renderVars, pctVars, backgroundVars>>

\* a sum point carrying the attribute: arty := attr.AsString()
SumPointAttributed(e, value, attr) ==
    /\ At(e, "points")
    /\ cur[e].kind = "sum"
    /\ shardMapOf(cur[e].name, attr) # "none"
    /\ Len(exported) < MaxPoints
    /\ exported' = Append(exported, [kind |-> "sum", name |-> cur[e].name,
                                     value |-> value, attr |-> attr])
    /\ Goto(e, "va_lookup", [cur[e] EXCEPT !.key = attr.val, !.value = value])
    /\ UNCHANGED <<storageVars, ret, fault, renderVars, pctVars, backgroundVars>>

\* validateArticleAttr / validateReqBlockedReason: _, found := map[name]
ValidateLookup(e) ==
    /\ At(e, "va_lookup")
    /\ pc' = [pc EXCEPT ![e] =
                IF shardMap(mapOfTask(e))[cur[e].key] # NoShard
                THEN "store" ELSE "va_assign"]
    /\ UNCHANGED <<storageVars, cur, ret, exported, fault, renderVars, pctVars, backgroundVars>>

\* map[name] = &atomic.Int64{}: the assignment begins (hashWriting is set)
ValidateAssignBegin(e) ==
    /\ At(e, "va_assign")
    /\ mapWriting' = mapWriting \cup {mapOfTask(e)}
    /\ pc' = [pc EXCEPT ![e] = "va_assigning"]
    /\ UNCHANGED <<histVars, cacheVars, gaugeVars, sumVars, servedCountPerArticle,
                   reqBlockedByReason, shardValue, freqUpdateMu,
                   cur, ret, exported, fault, renderVars, pctVars, backgroundVars>>

\* variant: the map keeps one key only, the new one
ValidateAssignEndCapped(e) ==
    /\ At(e, "va_assigning")
    /\ shardValue' = Append(shardValue, 0)
    /\ servedCountPerArticle' =
          IF mapOfTask(e) = "article"
          THEN [k \in Keys |-> IF k = cur[e].key THEN Len(shardValue) + 1 ELSE NoShard]
          ELSE servedCountPerArticle
    /\ reqBlockedByReason' =
          IF mapOfTask(e) = "blocked"
          THEN [k \in Keys |-> IF k = cur[e].key THEN Len(shardValue) + 1 ELSE NoShard]
          ELSE reqBlockedByReason
    /\ mapWriting' = mapWriting \ {mapOfTask(e)}
    /\ pc' = [pc EXCEPT ![e] = "va_init"]
    /\ UNCHANGED <<histVars, cacheVars, gaugeVars, sumVars, freqUpdateMu,
                   cur, ret, exported, fault, renderVars, pctVars, backgroundVars>>

\* ... and ends: the key now maps to a new zero-valued atomic.Int64
ValidateAssignEnd(e) ==
    /\ At(e, "va_assigning")
    /\ shardValue' = Append(shardValue, 0)
    /\ servedCountPerArticle' =
          IF mapOfTask(e) = "article"
          THEN [servedCountPerArticle EXCEPT ![cur[e].key] = Len(shardValue) + 1]
          ELSE servedCountPerArticle
    /\ reqBlockedByReason' =
          IF mapOfTask(e) = "blocked"
          THEN [reqBlockedByReason EXCEPT ![cur[e].key] = Len(shardValue) + 1]
          ELSE reqBlockedByReason
    /\ mapWriting' = mapWriting \ {mapOfTask(e)}
    /\ pc' = [pc EXCEPT ![e] = "va_init"]
    /\ UNCHANGED <<histVars, cacheVars, gaugeVars, sumVars, freqUpdateMu,
                   cur, ret, exported, fault, renderVars, pctVars, backgroundVars>>

\* map[name].Store(0)
ValidateInit(e) ==
    /\ At(e, "va_init")
    /\ shardValue' = [shardValue EXCEPT ![shardMap(mapOfTask(e))[cur[e].key]] = 0]
    /\ pc' = [pc EXCEPT ![e] = "store"]
    /\ UNCHANGED <<histVars, cacheVars, gaugeVars, sumVars, servedCountPerArticle,
                   reqBlockedByReason, mapWriting, freqUpdateMu,
                   cur, ret, exported, fault, renderVars, pctVars, backgroundVars>>

\* variant: the value of an attributed point is also stored into the total
ShardStoreAlsoTotal(e) ==
    /\ At(e, "store")
    /\ shardValue' = [shardValue EXCEPT ![shardMap(mapOfTask(e))[cur[e].key]] = cur[e].value]
    /\ articlesServed' = IF mapOfTask(e) = "article" THEN cur[e].value ELSE articlesServed
    /\ reqBlocked' = IF mapOfTask(e) = "blocked" THEN cur[e].value ELSE reqBlocked
    /\ Goto(e, "points", [cur[e] EXCEPT !.key = "none", !.value = 0])
    /\ UNCHANGED <<histVars, cacheVars, gaugeVars, roboticVisitors, servedCountPerArticle,
                   reqBlockedByReason, mapWriting, freqUpdateMu,
                   ret, exported, fault, renderVars, pctVars, backgroundVars>>

\* map[arty].Store(point.Value)
ShardStore(e) ==
    /\ At(e, "store")
    /\ shardValue' = [shardValue EXCEPT ![shardMap(mapOfTask(e))[cur[e].key]] = cur[e].value]
    /\ Goto(e, "points", [cur[e] EXCEPT !.key = "none", !.value = 0])
    /\ UNCHANGED <<histVars, cacheVars, gaugeVars, sumVars, servedCountPerArticle,
                   reqBlockedByReason, mapWriting, freqUpdateMu,
                   ret, exported, fault, renderVars, pctVars, backgroundVars>>

\* case metricdata.Histogram[float64] with a name the switch does not know
HistIgnored(e, name, points) ==
    /\ At(e, "metrics")
    /\ name # "http.server.request.duration"
    /\ Len(exported) < MaxPoints
    /\ exported' = Append(exported, [kind |-> "histogram", name |-> name,
                                     points |-> points])
    /\ UNCHANGED <<storageVars, pc, cur, ret, fault, renderVars, pctVars, backgroundVars>>

\* point := data.DataPoints[len(data.DataPoints)-1] on an empty DataPoints:
\* index out of range, the goroutine panics and the process ends
HistNoPoints(e) ==
    /\ At(e, "metrics")
    /\ Len(exported) < MaxPoints
    /\ exported' = Append(exported, [kind |-> "histogram",
                                     name |-> "http.server.request.duration",
                                     points |-> <<>>])
    /\ fault' = "panic"
    /\ pc' = [pc EXCEPT ![e] = "panicked"]
    /\ UNCHANGED <<storageVars, cur, ret, renderVars, pctVars, backgroundVars>>

\* variant: the total is added to the stored one instead of replacing it
HistStoreTotalAccumulating(e, points) ==
    /\ At(e, "metrics")
    /\ points # <<>>
    /\ Len(exported) < MaxPoints
    /\ exported' = Append(exported, [kind |-> "histogram",
                                     name |-> "http.server.request.duration",
                                     points |-> points])
    /\ LET point == points[Len(points)]
       IN  /\ reqDurTotalCount' = reqDurTotalCount + safeUint64ToInt64(point.count)
           /\ Goto(e, IF point.bounds = <<>> THEN "u_lock" ELSE "h_bucket",
                   [NoLocals EXCEPT !.kind = "histogram",
                                    !.name = "http.server.request.duration",
                                    !.point = point, !.i = 1])
    /\ UNCHANGED <<reqDurBucketValues, cacheVars, gaugeVars, sumVars, shardVars,
                   freqUpdateMu, ret, fault, renderVars, pctVars, backgroundVars>>

\* point := the last data point; reqDurTotalCount.Store(safeUint64ToInt64(point.Count))
HistStoreTotal(e, points) ==
    /\ At(e, "metrics")
    /\ points # <<>>
    /\ Len(exported) < MaxPoints
    /\ exported' = Append(exported, [kind |-> "histogram",
                                     name |-> "http.server.request.duration",
                                     points |-> points])
    /\ LET point == points[Len(points)]
       IN  /\ reqDurTotalCount' = safeUint64ToInt64(point.count)
           /\ Goto(e, IF point.bounds = <<>> THEN "u_lock" ELSE "h_bucket",
                   [NoLocals EXCEPT !.kind = "histogram",
                                    !.name = "http.server.request.duration",
                                    !.point = point, !.i = 1])
    /\ UNCHANGED <<reqDurBucketValues, cacheVars, gaugeVars, sumVars, shardVars,
                   freqUpdateMu, ret, fault, renderVars, pctVars, backgroundVars>>

\* the bucket a data point's i-th bound names, 0 when it names none: its
\* index has no bucket count, or its milliseconds are no predefined boundary
bucketOfBound(point, i) ==
    IF i <= Len(point.bucketCounts)
    THEN boundaryToIndex(boundMs(point.bounds[i]))
    ELSE 0

\* variant: a bound whose index has no bucket count takes the last count
HistBucketClamped(e) ==
    /\ At(e, "h_bucket")
    /\ LET point == cur[e].point
           i == cur[e].i
           j == IF i <= Len(point.bucketCounts) THEN i ELSE Len(point.bucketCounts)
           idx == boundaryToIndex(boundMs(point.bounds[i]))
       IN  /\ reqDurBucketValues' =
                 IF idx # 0 /\ j > 0
                 THEN [reqDurBucketValues EXCEPT
                         ![idx] = safeUint64ToInt64(point.bucketCounts[j])]
                 ELSE reqDurBucketValues
           /\ IF i = Len(point.bounds)
              THEN Goto(e, "u_lock", [cur[e] EXCEPT !.i = 0])
              ELSE Goto(e, "h_bucket", [cur[e] EXCEPT !.i = i + 1])
    /\ UNCHANGED <<reqDurTotalCount, cacheVars, gaugeVars, sumVars, shardVars,
                   freqUpdateMu, ret, exported, fault, renderVars, pctVars, backgroundVars>>

\* one iteration of for i, bval := range point.Bounds
HistBucket(e) ==
    /\ At(e, "h_bucket")
    /\ LET point == cur[e].point
           i == cur[e].i
           idx == bucketOfBound(point, i)
       IN  /\ reqDurBucketValues' =
                 IF idx # 0
                 THEN [reqDurBucketValues EXCEPT
                         ![idx] = safeUint64ToInt64(point.bucketCounts[i])]
                 ELSE reqDurBucketValues
           /\ IF i = Len(point.bounds)
              THEN Goto(e, "u_lock", [cur[e] EXCEPT !.i = 0])
              ELSE Goto(e, "h_bucket", [cur[e] EXCEPT !.i = i + 1])
    /\ UNCHANGED <<reqDurTotalCount, cacheVars, gaugeVars, sumVars, shardVars,
                   freqUpdateMu, ret, exported, fault, renderVars, pctVars, backgroundVars>>

\* variant: the recompute does not wait for the lock
UpdateLockUnserialized(e) ==
    /\ At(e, "u_lock")
    /\ freqUpdateMu' = e
    /\ pc' = [pc EXCEPT ![e] = "u_total"]
    /\ UNCHANGED <<histVars, cacheVars, gaugeVars, sumVars, shardVars,
                   cur, ret, exported, fault, renderVars, pctVars, backgroundVars>>

\* ---- UpdateServerFreqHistogram, called by Export after the bucket loop
\* lts.freqUpdateMu.Lock()
UpdateLock(e) ==
    /\ At(e, "u_lock")
    /\ freqUpdateMu = NoTask
    /\ freqUpdateMu' = e
    /\ pc' = [pc EXCEPT ![e] = "u_total"]
    /\ UNCHANGED <<histVars, cacheVars, gaugeVars, sumVars, shardVars,
                   cur, ret, exported, fault, renderVars, pctVars, backgroundVars>>

\* variant: no early return for a total count of 0
UpdateLoadTotalWalkingZero(e) ==
    /\ At(e, "u_total")
    /\ Goto(e, "u_walk", [cur[e] EXCEPT !.w = walkStart(reqDurTotalCount), !.i = 1])
    /\ UNCHANGED <<storageVars, ret, exported, fault, renderVars, pctVars, backgroundVars>>

\* calcPercentiles: totalCount := lts.reqDurTotalCount.Load()
UpdateLoadTotal(e) ==
    /\ At(e, "u_total")
    /\ IF reqDurTotalCount = 0
       THEN Goto(e, "u_store", [cur[e] EXCEPT !.results = <<0, 0, 0, 0>>, !.i = 1])
       ELSE Goto(e, "u_walk", [cur[e] EXCEPT !.w = walkStart(reqDurTotalCount), !.i = 1])
    /\ UNCHANGED <<storageVars, ret, exported, fault, renderVars, pctVars, backgroundVars>>

\* calcPercentiles: one iteration of the loop over the buckets
UpdateWalk(e) ==
    /\ At(e, "u_walk")
    /\ LET i == cur[e].i
           w2 == walkBucket(cur[e].w, i, reqDurBucketValues[i])
       IN  IF w2.found = 4
           THEN Goto(e, "u_store", [cur[e] EXCEPT !.results = w2.results,
                                                  !.w = NoWalk, !.i = 1])
           ELSE IF i = NumBuckets
           THEN Goto(e, "u_store", [cur[e] EXCEPT !.results = walkFinish(w2),
                                                  !.w = NoWalk, !.i = 1])
           ELSE Goto(e, "u_walk", [cur[e] EXCEPT !.w = w2, !.i = i + 1])
    /\ UNCHANGED <<storageVars, ret, exported, fault, renderVars, pctVars, backgroundVars>>

\* variant: p99 is computed but not stored
UpdateStoreWithoutP99(e) ==
    /\ At(e, "u_store")
    /\ LET k == cur[e].i
       IN  /\ reqDur50' = IF k = 1 THEN cur[e].results[1] ELSE reqDur50
           /\ reqDur90' = IF k = 2 THEN cur[e].results[2] ELSE reqDur90
           /\ reqDur95' = IF k = 3 THEN cur[e].results[3] ELSE reqDur95
           /\ reqDur99' = reqDur99
           /\ IF k = 4
              THEN Goto(e, "u_unlock", [cur[e] EXCEPT !.i = 0, !.results = <<>>])
              ELSE Goto(e, "u_store", [cur[e] EXCEPT !.i = k + 1])
    /\ UNCHANGED <<histVars, gaugeVars, sumVars, shardVars, freqUpdateMu,
                   ret, exported, fault, renderVars, pctVars, backgroundVars>>

\* lts.reqDur50.Store(p50) ... lts.reqDur99.Store(p99), one store a step
UpdateStore(e) ==
    /\ At(e, "u_store")
    /\ LET k == cur[e].i
       IN  /\ reqDur50' = IF k = 1 THEN cur[e].results[1] ELSE reqDur50
           /\ reqDur90' = IF k = 2 THEN cur[e].results[2] ELSE reqDur90
           /\ reqDur95' = IF k = 3 THEN cur[e].results[3] ELSE reqDur95
           /\ reqDur99' = IF k = 4 THEN cur[e].results[4] ELSE reqDur99
           /\ IF k = 4
              THEN Goto(e, "u_unlock", [cur[e] EXCEPT !.i = 0, !.results = <<>>])
              ELSE Goto(e, "u_store", [cur[e] EXCEPT !.i = k + 1])
    /\ UNCHANGED <<histVars, gaugeVars, sumVars, shardVars, freqUpdateMu,
                   ret, exported, fault, renderVars, pctVars, backgroundVars>>

\* defer lts.freqUpdateMu.Unlock(), and back in Export's loop over the metrics
UpdateUnlock(e) ==
    /\ At(e, "u_unlock")
    /\ freqUpdateMu' = NoTask
    /\ Goto(e, "metrics", NoLocals)
    /\ UNCHANGED <<histVars, cacheVars, gaugeVars, sumVars, shardVars,
                   ret, exported, fault, renderVars, pctVars, backgroundVars>>

\* every step of Export by task e, its inputs drawn from the given sets
ExportStep(e, gaugeNames, sumNames, values, histNames, pointSeqs) ==
    \/ ExportCall(e)
    \/ ExportReturn(e)
    \/ \E name \in gaugeNames : PointsMetric(e, "gauge", name)
    \/ \E name \in sumNames : PointsMetric(e, "sum", name)
    \/ EndPoints(e)
    \/ \E value \in values : GaugePoint(e, value)
    \/ \E value \in values, attr \in AttrsOf(cur[e].name) : SumPointPlain(e, value, attr)
    \/ \E value \in values, attr \in AttrsOf(cur[e].name) : SumPointAttributed(e, value, attr)
    \/ ValidateLookup(e)
    \/ ValidateAssignBegin(e)
    \/ ValidateAssignEnd(e)
    \/ ValidateInit(e)
    \/ ShardStore(e)
    \/ \E name \in histNames : HistIgnored(e, name, <<PointFirst>>)
    \/ HistNoPoints(e)
    \/ \E points \in pointSeqs : HistStoreTotal(e, points)
    \/ HistBucket(e)
    \/ UpdateLock(e)
    \/ UpdateLoadTotal(e)
    \/ UpdateWalk(e)
    \/ UpdateStore(e)
    \/ UpdateUnlock(e)

\* ---- the runtime's check for concurrent map access
\* A map access that overlaps another task's assignment to the same map is a
\* data race.  The runtime may notice it (the hashWriting flag) and end the
\* process with "concurrent map read and map write" or "concurrent map
\* writes"; when it does not, the access goes on as the other actions say.
MapRaceFatal(e) ==
    /\ fault = "none"
    /\ \/ pc[e] \in {"va_lookup", "va_assign", "va_init", "store"}
          /\ mapOfTask(e) \in mapWriting
       \/ pc[e] = "va_assigning"
          /\ mapOfTask(e) \notin mapWriting
    /\ fault' = "fatal"
    /\ UNCHANGED <<storageVars, pc, cur, ret, exported, renderVars, pctVars, backgroundVars>>

\* ------------------------------------------------ Server.writeMetricSnippet
\* The handler writes one line per metric, each from one load; the two shard
\* maps are ranged over, their keys sorted, and each key looked up again.

\* sort.Strings on the attribute values: "x" < "y"
lessString(a, b) == a = "x" /\ b = "y"

RECURSIVE insertSorted(_, _)
insertSorted(sorted, k) ==
    IF sorted = <<>> THEN <<k>>
    ELSE IF lessString(k, Head(sorted)) THEN <<k>> \o sorted
    ELSE <<Head(sorted)>> \o insertSorted(Tail(sorted), k)

\* variant: the keys stay in the order the range yielded them
keepOrder(keys) == keys

RECURSIVE sortStrings(_)
sortStrings(keys) ==
    IF keys = <<>> THEN <<>>
    ELSE insertSorted(sortStrings(Tail(keys)), Head(keys))

\* the orders in which a range over a map can yield the key set ks
RECURSIVE rangeOrders(_)
rangeOrders(ks) ==
    IF ks = {} THEN {<<>>}
    ELSE UNION {{<<k>> \o rest : rest \in rangeOrders(ks \ {k})} : k \in ks}

keysOf(m) == {k \in Keys : shardMap(m)[k] # NoShard}

\* the lines after the two listings, in the order they are written
ScalarLabels ==
    <<"blog.requests.robots", "blog.server.request.ms.p50",
      "blog.server.request.ms.p90", "blog.server.request.ms.p95",
      "blog.server.request.ms.p99", "blog.goroutine.count",
      "blog.heap.alloc.bytes", "blog.stack.alloc.bytes">>

scalarOf(k) ==
    CASE k = 1 -> roboticVisitors
      [] k = 2 -> reqDur50
      [] k = 3 -> reqDur90
      [] k = 4 -> reqDur95
      [] k = 5 -> reqDur99
      [] k = 6 -> numGoRo
      [] k = 7 -> heapAlloc
      [] OTHER -> stackAlloc

Line(label, key, value) == [label |-> label, key |-> key, value |-> value]

RAt(where) == fault = "none" /\ rpc = where

\* where the handler goes after the listing of map m
afterListing(m) ==
    IF m = "article"
    THEN [rpc |-> "total", rd |-> [NoRender EXCEPT !.map = "blocked"]]
    ELSE [rpc |-> "scalars", rd |-> [NoRender EXCEPT !.i = 1]]

RenderCall ==
    /\ RAt("idle")
    /\ rpc' = "total"
    /\ rd' = [NoRender EXCEPT !.map = "article"]
    /\ page' = <<>>
    /\ rstart' = [taken |-> Len(exported),
                  quiet |-> \A e \in Exporters : pc[e] \in {"idle", "metrics", "points"}]
    /\ UNCHANGED <<storageVars, taskVars, pctVars, backgroundVars>>

\* ew.int64(s.lts.articlesServed.Load()) / ew.int64(s.lts.reqBlocked.Load())
RenderTotal ==
    /\ RAt("total")
    /\ page' = Append(page,
                 IF rd.map = "article"
                 THEN Line("blog.articles.served", "none", articlesServed)
                 ELSE Line("blog.requests.blocked", "none", reqBlocked))
    /\ rpc' = "range"
    /\ UNCHANGED <<storageVars, taskVars, rstart, rd, pctVars, backgroundVars>>

\* for art := range map: the iteration starts; the keys present now are seen
RenderRangeBegin ==
    /\ RAt("range")
    /\ rd' = [rd EXCEPT !.seen = keysOf(rd.map)]
    /\ rpc' = "ranging"
    /\ UNCHANGED <<storageVars, taskVars, rstart, page, pctVars, backgroundVars>>

\* ... and ends: a key inserted meanwhile may or may not have been yielded,
\* in any order; sort.Strings(orderedKeys)
RenderRangeEnd ==
    /\ RAt("ranging")
    /\ \E ks \in SUBSET keysOf(rd.map) :
          /\ rd.seen \subseteq ks
          /\ \E order \in rangeOrders(ks) :
                IF ks = {}
                THEN /\ rpc' = afterListing(rd.map).rpc
                     /\ rd' = afterListing(rd.map).rd
                ELSE /\ rpc' = "lookup"
                     /\ rd' = [rd EXCEPT !.seen = {}, !.keys = sortStrings(order),
                                         !.i = 1]
    /\ UNCHANGED <<storageVars, taskVars, rstart, page, pctVars, backgroundVars>>

\* counter, exists := map[aname]
RenderLookup ==
    /\ RAt("lookup")
    /\ rd' = [rd EXCEPT !.counter = shardMap(rd.map)[rd.keys[rd.i]]]
    /\ rpc' = "load"
    /\ UNCHANGED <<storageVars, taskVars, rstart, page, pctVars, backgroundVars>>

\* if exists: ew.int64(counter.Load()); and on to the next key
RenderCounterLoad ==
    /\ RAt("load")
    /\ page' = IF rd.counter # NoShard
               THEN Append(page,
                      Line(IF rd.map = "article" THEN "blog.articles.served."
                           ELSE "blog.requests.blocked.",
                           rd.keys[rd.i], shardValue[rd.counter]))
               ELSE page
    /\ IF rd.i = Len(rd.keys)
       THEN /\ rpc' = afterListing(rd.map).rpc
            /\ rd' = afterListing(rd.map).rd
       ELSE /\ rpc' = "lookup"
            /\ rd' = [rd EXCEPT !.i = rd.i + 1, !.counter = NoShard]
    /\ UNCHANGED <<storageVars, taskVars, rstart, pctVars, backgroundVars>>

\* the lines of the plain counters, percentiles and gauges, one load each
RenderScalar ==
    /\ RAt("scalars")
    /\ page' = Append(page, Line(ScalarLabels[rd.i], "none", scalarOf(rd.i)))
    /\ IF rd.i = Len(ScalarLabels)
       THEN /\ rpc' = "idle"
            /\ rd' = NoRender
       ELSE /\ rpc' = "scalars"
            /\ rd' = [rd EXCEPT !.i = rd.i + 1]
    /\ UNCHANGED <<storageVars, taskVars, rstart, pctVars, backgroundVars>>

\* the handler's range or lookup overlaps an exporter's assignment to the
\* same map, and the runtime notices
RenderRaceFatal ==
    /\ fault = "none"
    /\ rpc \in {"range", "ranging", "lookup"}
    /\ rd.map \in mapWriting
    /\ fault' = "fatal"
    /\ UNCHANGED <<storageVars, pc, cur, ret, exported, renderVars, pctVars, backgroundVars>>

RenderStep ==
    \/ RenderCall
    \/ RenderTotal
    \/ RenderRangeBegin
    \/ RenderRangeEnd
    \/ RenderLookup
    \/ RenderCounterLoad
    \/ RenderScalar
    \/ RenderRaceFatal

\* the exporter as the periodic reader drives it: one Export at a time
Next == ExportStep(1, GaugeNames, SumNames, Values, HistNames, HistPointSeqs)

Spec == Init /\ [][Next]_vars

\* ---- two Export calls at once, on a batch of few kinds
ConcGaugeNames == {"goroutine.count"}
ConcSumNames == {"articles.served", "request.blocked"}
ConcValues == {1, 2}
ConcHistNames == {"unknown.histogram"}
ConcPointSeqs == {<<PointFirst>>}

NextConc ==
    \/ \E e \in Exporters :
          ExportStep(e, ConcGaugeNames, ConcSumNames, ConcValues, ConcHistNames,
                     ConcPointSeqs)
    \/ \E e \in Exporters : MapRaceFatal(e)

SpecConc == Init /\ [][NextConc]_vars

\* ---- one exporter and the metrics page being rendered
NextRender ==
    \/ ExportStep(1, ConcGaugeNames, ConcSumNames, ConcValues, ConcHistNames,
                  ConcPointSeqs)
    \/ RenderStep

SpecRender == Init /\ [][NextRender]_vars

\* ---- the same with the article counter as the only sum exported, every
\* point with the same value
PageSumNames == {"articles.served"}
PageValues == {2}

NextPage ==
    \/ ExportStep(1, ConcGaugeNames, PageSumNames, PageValues, ConcHistNames,
                  ConcPointSeqs)
    \/ RenderStep

SpecPage == Init /\ [][NextPage]_vars

\* ---- one exporter given every kind of histogram point, few other points
\* a bound that is not a whole number of milliseconds: 5.9 ms
PointTruncated == [count |-> 4, bounds |-> <<5900, 10000>>, bucketCounts |-> <<3, 1, 0>>]

HistOnlyPointSeqs == {<<a>> : a \in HistPoints \cup {PointTruncated}}

NextHist ==
    ExportStep(1, ConcGaugeNames, PageSumNames, PageValues, ConcHistNames,
               HistOnlyPointSeqs)

SpecHist == Init /\ [][NextHist]_vars

\* ---- two Export calls at once, each with a duration histogram of its own
RecomputePointSeqs == {<<PointFirst>>, <<PointSecond>>}

NextRecompute ==
    \E e \in Exporters :
       ExportStep(e, ConcGaugeNames, PageSumNames, PageValues, ConcHistNames,
                  RecomputePointSeqs)

SpecRecompute == Init /\ [][NextRecompute]_vars

\* ---------------------------------------------- histograms given to the tests
\* the bucket counts of the percentile tests, by boundary in milliseconds
EvenDistribution == [ZeroBuckets EXCEPT ![1] = 25, ![2] = 25, ![3] = 25, ![4] = 25]
SkewedSmall == [ZeroBuckets EXCEPT ![1] = 90, ![2] = 5, ![3] = 3, ![4] = 1, ![6] = 1]
ProductionData == [ZeroBuckets EXCEPT ![1] = 32, ![2] = 1]

\* what Export stores for PointHuge: the clamped total and bucket counts
HugeData == [ZeroBuckets EXCEPT ![1] = 1, ![2] = MaxInt64]

TestHistograms ==
    { [total |-> 100, buckets |-> EvenDistribution],
      [total |-> 100, buckets |-> SkewedSmall],
      [total |-> 33, buckets |-> ProductionData],
      [total |-> 0, buckets |-> ZeroBuckets],
      [total |-> MaxInt64, buckets |-> HugeData] }

\* bucket counts with at most two buckets filled, each with 1..MaxCount
SparseBuckets ==
    { [i \in Buckets |-> IF i = a THEN ca ELSE IF i = b THEN cb ELSE 0] :
        a \in Buckets, b \in Buckets, ca \in 0..MaxCount, cb \in 0..MaxCount }

\* total counts: the small ones, and the largest that can be stored
TotalCounts == (0..MaxTotal) \cup {MaxInt64 - 1, MaxInt64}

GeneratedHistograms == [total : TotalCounts, buckets : SparseBuckets]

\* a total count that safeUint64ToInt64 stores as it is and whose product
\* with 50 fits int64 while its product with 90 does not, all of it counted
\* in the bucket of 10 ms
PartlyWrappingTotal == MaxInt64 \div 60

WrappingHistograms ==
    { [total |-> PartlyWrappingTotal,
       buckets |-> [ZeroBuckets EXCEPT ![2] = PartlyWrappingTotal]] }

\* a histogram whose median lies just above the boundary of 5 ms: 49 of 100
\* observations below it
NearBoundaryHistograms ==
    { [total |-> 100, buckets |-> [ZeroBuckets EXCEPT ![1] = 49, ![2] = 51]] }

\* ------------------------------------------- the estimator on a fixed histogram
InitPct ==
    /\ \E h \in TestHistograms \cup GeneratedHistograms \cup WrappingHistograms
                \cup NearBoundaryHistograms :
          /\ reqDurTotalCount = h.total
          /\ reqDurBucketValues = h.buckets
    /\ StorageInit
    /\ TasksInit
    /\ BackgroundInit
    /\ pctOut = [k \in 1..4 |-> NotCalled]
    /\ pctsOut = <<>>

\* the test's loop: result, err := storage.calcPercentile(p) for p = 50, 90, 95, 99
CallCalcPercentile ==
    /\ pctOut[1] = NotCalled
    /\ pctOut' = [k \in 1..4 |->
                    calcPercentile(reqDurTotalCount, reqDurBucketValues, Percentiles[k])]
    /\ UNCHANGED <<storageVars, taskVars, renderVars, pctsOut, backgroundVars>>

CallCalcPercentiles ==
    /\ pctsOut = <<>>
    /\ pctsOut' = calcPercentiles(reqDurTotalCount, reqDurBucketValues)
    /\ UNCHANGED <<storageVars, taskVars, renderVars, pctOut, backgroundVars>>

NextPct == CallCalcPercentile \/ CallCalcPercentiles

SpecPct == InitPct /\ [][NextPct]_vars

\* ============================================================ span pipeline
\* make(chan tracetest.SpanStub, 10)
SpanChanCap == 10

\* ---- LocalTelemetryStorage.Write: select { case spanChan <- span: default: }
\* variant: a plain channel send, which waits while the buffer is full
WriteBlocking(encodable) ==
    /\ nWritten < MaxSpans
    /\ ~encodable => nBad < MaxBadSpans
    /\ Len(spanChan) < SpanChanCap
    /\ nWritten' = nWritten + 1
    /\ nBad' = IF encodable THEN nBad ELSE nBad + 1
    /\ spanChan' = Append(spanChan, Span(nWritten + 1, encodable))
    /\ lastQueued' = nWritten + 1
    /\ UNCHANGED <<storageVars, taskVars, renderVars, pctVars, costVars, samplerVars, viewVars, managerVars, latestSpan, spanMu,
                   ctxDone, cpc, cspan, jpc, jread, jret, dropped, nTaken>>

\* variant: when the buffer is full the oldest queued span makes room
WriteEvicting(encodable) ==
    /\ nWritten < MaxSpans
    /\ ~encodable => nBad < MaxBadSpans
    /\ nWritten' = nWritten + 1
    /\ nBad' = IF encodable THEN nBad ELSE nBad + 1
    /\ IF Len(spanChan) < SpanChanCap
       THEN /\ spanChan' = Append(spanChan, Span(nWritten + 1, encodable))
            /\ dropped' = dropped
       ELSE /\ spanChan' = Append(Tail(spanChan), Span(nWritten + 1, encodable))
            /\ dropped' = Append(dropped, Head(spanChan).id)
    /\ lastQueued' = nWritten + 1
    /\ UNCHANGED <<storageVars, taskVars, renderVars, pctVars, costVars, samplerVars, viewVars, managerVars, latestSpan, spanMu,
                   ctxDone, cpc, cspan, jpc, jread, jret, nTaken>>

Write(encodable) ==
    /\ nWritten < MaxSpans
    /\ ~encodable => nBad < MaxBadSpans
    /\ nWritten' = nWritten + 1
    /\ nBad' = IF encodable THEN nBad ELSE nBad + 1
    /\ IF Len(spanChan) < SpanChanCap
       THEN /\ spanChan' = Append(spanChan, Span(nWritten + 1, encodable))
            /\ lastQueued' = nWritten + 1
            /\ dropped' = dropped
       ELSE /\ spanChan' = spanChan
            /\ lastQueued' = lastQueued
            /\ dropped' = Append(dropped, nWritten + 1)
    /\ UNCHANGED <<storageVars, taskVars, renderVars, pctVars, costVars, samplerVars, viewVars, managerVars, latestSpan, spanMu,
                   ctxDone, cpc, cspan, jpc, jread, jret, nTaken>>

\* ---- the consumer goroutine of Start
\* variant: the newest queued span is received first
ConsumerReceiveNewest ==
    /\ cpc = "select"
    /\ spanChan # <<>>
    /\ cspan' = spanChan[Len(spanChan)]
    /\ spanChan' = SubSeq(spanChan, 1, Len(spanChan) - 1)
    /\ nTaken' = nTaken + 1
    /\ cpc' = "lock"
    /\ UNCHANGED <<storageVars, taskVars, renderVars, pctVars, costVars, samplerVars, viewVars, managerVars, latestSpan, spanMu,
                   ctxDone, jpc, jread, jret, nWritten, dropped, lastQueued, nBad>>

\* case span := <-lts.spanChan
ConsumerReceive ==
    /\ cpc = "select"
    /\ spanChan # <<>>
    /\ cspan' = Head(spanChan)
    /\ spanChan' = Tail(spanChan)
    /\ nTaken' = nTaken + 1
    /\ cpc' = "lock"
    /\ UNCHANGED <<storageVars, taskVars, renderVars, pctVars, costVars, samplerVars, viewVars, managerVars, latestSpan, spanMu,
                   ctxDone, jpc, jread, jret, nWritten, dropped, lastQueued, nBad>>

\* variant: on the signal the consumer stores what is queued and then returns
ConsumerStopFlushing ==
    /\ cpc = "select"
    /\ ctxDone
    /\ cpc' = "done"
    /\ spanChan' = <<>>
    /\ latestSpan' = IF spanChan = <<>> THEN latestSpan
                     ELSE Slot(spanChan[Len(spanChan)])
    /\ nTaken' = nTaken + Len(spanChan)
    /\ UNCHANGED <<storageVars, taskVars, renderVars, pctVars, costVars, samplerVars, viewVars, managerVars,
                   spanMu, ctxDone, cspan, jpc, jread, jret, nWritten, dropped,
                   lastQueued, nBad>>

\* case <-ctx.Done(): return
ConsumerStop ==
    /\ cpc = "select"
    /\ ctxDone
    /\ cpc' = "done"
    /\ UNCHANGED <<storageVars, taskVars, renderVars, pctVars, costVars, samplerVars, viewVars, managerVars, spanChan, latestSpan,
                   spanMu, ctxDone, cspan, jpc, jread, jret, nWritten, dropped,
                   lastQueued, nBad, nTaken>>

\* lts.spanMu.Lock(): the writer announces itself, which keeps new readers out
ConsumerLockAnnounce ==
    /\ cpc = "lock"
    /\ spanMu' = [spanMu EXCEPT !.pending = TRUE]
    /\ cpc' = "locking"
    /\ UNCHANGED <<storageVars, taskVars, renderVars, pctVars, costVars, samplerVars, viewVars, managerVars, spanChan, latestSpan,
                   ctxDone, cspan, jpc, jread, jret, nWritten, dropped, lastQueued,
                   nBad, nTaken>>

\* ... and has the lock once the readers inside have left
ConsumerLockAcquire ==
    /\ cpc = "locking"
    /\ spanMu.readers = 0
    /\ spanMu' = [spanMu EXCEPT !.pending = FALSE, !.writer = TRUE]
    /\ cpc' = "store_head"
    /\ UNCHANGED <<storageVars, taskVars, renderVars, pctVars, costVars, samplerVars, viewVars, managerVars, spanChan, latestSpan,
                   ctxDone, cspan, jpc, jread, jret, nWritten, dropped, lastQueued,
                   nBad, nTaken>>

\* lts.latestSpan = span: the struct is copied part by part
ConsumerStoreHead ==
    /\ cpc = "store_head"
    /\ latestSpan' = [latestSpan EXCEPT !.head = cspan.id]
    /\ cpc' = "store_tail"
    /\ UNCHANGED <<storageVars, taskVars, renderVars, pctVars, costVars, samplerVars, viewVars, managerVars, spanChan, spanMu,
                   ctxDone, cspan, jpc, jread, jret, nWritten, dropped, lastQueued,
                   nBad, nTaken>>

ConsumerStoreTail ==
    /\ cpc = "store_tail"
    /\ latestSpan' = [latestSpan EXCEPT !.tail = cspan.id, !.enc = cspan.enc]
    /\ cpc' = "unlock"
    /\ UNCHANGED <<storageVars, taskVars, renderVars, pctVars, costVars, samplerVars, viewVars, managerVars, spanChan, spanMu,
                   ctxDone, cspan, jpc, jread, jret, nWritten, dropped, lastQueued,
                   nBad, nTaken>>

\* lts.spanMu.Unlock()
ConsumerUnlock ==
    /\ cpc = "unlock"
    /\ spanMu' = [spanMu EXCEPT !.writer = FALSE]
    /\ cpc' = "select"
    /\ cspan' = ZeroSpan
    /\ UNCHANGED <<storageVars, taskVars, renderVars, pctVars, costVars, samplerVars, viewVars, managerVars, spanChan, latestSpan,
                   ctxDone, jpc, jread, jret, nWritten, dropped, lastQueued, nBad,
                   nTaken>>

\* the process-wide cancellation signal fires
Cancel ==
    /\ ~ctxDone
    /\ ctxDone' = TRUE
    /\ UNCHANGED <<storageVars, taskVars, renderVars, pctVars, costVars, samplerVars, viewVars, managerVars, spanChan, latestSpan,
                   spanMu, cpc, cspan, jpc, jread, jret, nWritten, dropped,
                   lastQueued, nBad, nTaken>>

\* ---- LocalTelemetryStorage.GetLastSpanJSON
\* json.Marshal of the parts read: the span's JSON text, or an error for a
\* span holding a value JSON cannot express
marshal(slot) ==
    IF slot.enc
    THEN [data |-> <<"{", slot.head, slot.tail, "}">>, err |-> "nil"]
    ELSE [data |-> <<>>, err |-> "json: unsupported value"]

\* variant: the slot is read without taking the read lock
LastSpanRLockSkipped ==
    /\ jpc = "idle"
    /\ jret' = NoResult
    /\ jpc' = "read_head"
    /\ UNCHANGED <<storageVars, taskVars, renderVars, pctVars, costVars, samplerVars, viewVars, managerVars, spanChan, latestSpan,
                   spanMu, ctxDone, cpc, cspan, jread, nWritten, dropped, lastQueued,
                   nBad, nTaken>>

\* lts.spanMu.RLock()
LastSpanRLock ==
    /\ jpc = "idle"
    /\ ~spanMu.writer /\ ~spanMu.pending
    /\ spanMu' = [spanMu EXCEPT !.readers = spanMu.readers + 1]
    /\ jret' = NoResult
    /\ jpc' = "read_head"
    /\ UNCHANGED <<storageVars, taskVars, renderVars, pctVars, costVars, samplerVars, viewVars, managerVars, spanChan, latestSpan,
                   ctxDone, cpc, cspan, jread, nWritten, dropped, lastQueued, nBad,
                   nTaken>>

\* data, err := json.Marshal(lts.latestSpan): the slot is read part by part
LastSpanReadHead ==
    /\ jpc = "read_head"
    /\ jread' = [jread EXCEPT !.head = latestSpan.head]
    /\ jpc' = "read_tail"
    /\ UNCHANGED <<storageVars, taskVars, renderVars, pctVars, costVars, samplerVars, viewVars, managerVars, spanChan, latestSpan,
                   spanMu, ctxDone, cpc, cspan, jret, nWritten, dropped, lastQueued,
                   nBad, nTaken>>

LastSpanReadTail ==
    /\ jpc = "read_tail"
    /\ jread' = [jread EXCEPT !.tail = latestSpan.tail, !.enc = latestSpan.enc]
    /\ jpc' = "runlock"
    /\ UNCHANGED <<storageVars, taskVars, renderVars, pctVars, costVars, samplerVars, viewVars, managerVars, spanChan, latestSpan,
                   spanMu, ctxDone, cpc, cspan, jret, nWritten, dropped, lastQueued,
                   nBad, nTaken>>

\* variant: the error return leaves before RUnlock
LastSpanReturnLeaking ==
    /\ jpc = "runlock"
    /\ spanMu' = IF marshal(jread).err = "nil"
                 THEN [spanMu EXCEPT !.readers = IF spanMu.readers > 0
                                                 THEN spanMu.readers - 1 ELSE 0]
                 ELSE spanMu
    /\ jret' = marshal(jread)
    /\ jread' = Slot(ZeroSpan)
    /\ jpc' = "idle"
    /\ UNCHANGED <<storageVars, taskVars, renderVars, pctVars, costVars, samplerVars, viewVars, managerVars, spanChan, latestSpan,
                   ctxDone, cpc, cspan, nWritten, dropped, lastQueued, nBad, nTaken>>

\* variant: returning the span takes it out of the slot
LastSpanReturnTaking ==
    /\ jpc = "runlock"
    /\ spanMu' = [spanMu EXCEPT !.readers = IF spanMu.readers > 0
                                            THEN spanMu.readers - 1 ELSE 0]
    /\ jret' = marshal(jread)
    /\ jread' = Slot(ZeroSpan)
    /\ latestSpan' = Slot(ZeroSpan)
    /\ jpc' = "idle"
    /\ UNCHANGED <<storageVars, taskVars, renderVars, pctVars, costVars, samplerVars, viewVars, managerVars, spanChan,
                   ctxDone, cpc, cspan, nWritten, dropped, lastQueued, nBad, nTaken>>

\* lts.spanMu.RUnlock(), and the return of ("", err) or (string(data), nil)
LastSpanReturn ==
    /\ jpc = "runlock"
    /\ spanMu' = [spanMu EXCEPT !.readers = IF spanMu.readers > 0
                                            THEN spanMu.readers - 1 ELSE 0]
    /\ jret' = marshal(jread)
    /\ jread' = Slot(ZeroSpan)
    /\ jpc' = "idle"
    /\ UNCHANGED <<storageVars, taskVars, renderVars, pctVars, costVars, samplerVars, viewVars, managerVars, spanChan, latestSpan,
                   ctxDone, cpc, cspan, nWritten, dropped, lastQueued, nBad, nTaken>>

NextSpan ==
    \/ \E encodable \in BOOLEAN : Write(encodable)
    \/ ConsumerReceive
    \/ ConsumerStop
    \/ ConsumerLockAnnounce
    \/ ConsumerLockAcquire
    \/ ConsumerStoreHead
    \/ ConsumerStoreTail
    \/ ConsumerUnlock
    \/ Cancel
    \/ LastSpanRLock
    \/ LastSpanReadHead
    \/ LastSpanReadTail
    \/ LastSpanReturn

SpecSpan == Init /\ [][NextSpan]_vars

\* ============================================================ cost refresher
\* the fragments costHTML can hold; a timestamp is the number of the fetch
\* whose outcome was rendered
EmptyHTML == <<>>
DisabledHTML == <<"Cost tracking disabled", "N/A">>
FailedHTML(timestamp) == <<"Failed to fetch cost data", timestamp>>
generateCostHTML(serviceCosts, timestamp) == <<"table", serviceCosts, timestamp>>

\* the service costs a fetch can return
CostTables == {"costs-a", "costs-b"}
\* fetchAWSCosts returns (serviceCosts, nil) or (nil, err)
FetchOutcomes == [err : {"nil"}, costs : CostTables] \cup {[err |-> "failed", costs |-> "none"]}
\* lts.cfg as Start is given it
Configs == {"nil", "disabled", "enabled"}

KAt(where) == kpc = where

KGoto(where) == kpc' = where

\* ---- LocalTelemetryStorage.Start: lts.cfg = cfg; go lts.costUpdateLoop(ctx)
StartCost(c) ==
    /\ KAt("idle")
    /\ cfg' = c
    /\ KGoto("check")
    /\ UNCHANGED <<storageVars, taskVars, renderVars, pctVars, spanVars, samplerVars, viewVars, managerVars, costHTML,
                   costMu, costSuccess, costFailure, kfetch, ksnap, nFetches, stores,
                   qpc, qhtml, served>>

\* variant: only a missing configuration counts as disabled
CostCheckNilOnly ==
    /\ KAt("check")
    /\ KGoto(IF cfg # "nil" THEN "fetch" ELSE "lock")
    /\ UNCHANGED <<storageVars, taskVars, renderVars, pctVars, spanVars, samplerVars, viewVars, managerVars, cfg, costHTML,
                   costMu, costSuccess, costFailure, kfetch, ksnap, nFetches, stores,
                   qpc, qhtml, served>>

\* if lts.cfg == nil || !lts.cfg.CostTrackingEnabled
CostCheck ==
    /\ KAt("check")
    /\ KGoto(IF cfg = "enabled" THEN "fetch" ELSE "lock")
    /\ UNCHANGED <<storageVars, taskVars, renderVars, pctVars, spanVars, samplerVars, viewVars, managerVars, cfg, costHTML,
                   costMu, costSuccess, costFailure, kfetch, ksnap, nFetches, stores,
                   qpc, qhtml, served>>

\* variant: the lock is taken before the fetch is made
CostFetchBeginLocked ==
    /\ \/ KAt("fetch")
       \/ KAt("wait") /\ nFetches < MaxFetches
    /\ costMu.readers = 0
    /\ costMu' = [costMu EXCEPT !.writer = TRUE]
    /\ ksnap' = [html |-> costHTML, success |-> costSuccess, failure |-> costFailure,
                 periodic |-> KAt("wait"), previous |-> kfetch]
    /\ KGoto("fetching")
    /\ UNCHANGED <<storageVars, taskVars, renderVars, pctVars, spanVars, samplerVars, viewVars, managerVars, cfg, costHTML,
                   costSuccess, costFailure, kfetch, nFetches, stores,
                   qpc, qhtml, served>>

\* serviceCosts, err := lts.fetchAWSCosts(ctx): the call is made (the first
\* right away, the later ones on case <-ticker.C) ...
CostFetchBegin ==
    /\ \/ KAt("fetch")
       \/ KAt("wait") /\ nFetches < MaxFetches
    /\ ksnap' = [html |-> costHTML, success |-> costSuccess, failure |-> costFailure,
                 periodic |-> KAt("wait"), previous |-> kfetch]
    /\ KGoto("fetching")
    /\ UNCHANGED <<storageVars, taskVars, renderVars, pctVars, spanVars, samplerVars, viewVars, managerVars, cfg, costHTML,
                   costMu, costSuccess, costFailure, kfetch, nFetches, stores,
                   qpc, qhtml, served>>

\* variant: every outcome is handled under the lock
CostFetchEndAlwaysStore(outcome) ==
    /\ KAt("fetching")
    /\ kfetch' = outcome
    /\ nFetches' = nFetches + 1
    /\ KGoto("lock")
    /\ UNCHANGED <<storageVars, taskVars, renderVars, pctVars, spanVars, samplerVars, viewVars, managerVars, cfg, costHTML,
                   costMu, costSuccess, costFailure, ksnap, stores, qpc, qhtml, served>>

\* variant: a failed periodic fetch ends the loop
CostFetchEndFatal(outcome) ==
    /\ KAt("fetching")
    /\ kfetch' = outcome
    /\ nFetches' = nFetches + 1
    /\ KGoto(IF ksnap.periodic
             THEN (IF outcome.err = "nil" THEN "lock" ELSE "done")
             ELSE "lock")
    /\ UNCHANGED <<storageVars, taskVars, renderVars, pctVars, spanVars, samplerVars, viewVars, managerVars, cfg, costHTML,
                   costMu, costSuccess, costFailure, ksnap, stores, qpc, qhtml, served>>

\* ... and returns.  The first outcome is handled under the lock whatever it
\* is, a later one only if it is a success
CostFetchEnd(outcome) ==
    /\ KAt("fetching")
    /\ kfetch' = outcome
    /\ nFetches' = nFetches + 1
    /\ KGoto(IF ksnap.periodic
             THEN (IF outcome.err = "nil" THEN "lock" ELSE "count")
             ELSE "lock")
    /\ UNCHANGED <<storageVars, taskVars, renderVars, pctVars, spanVars, samplerVars, viewVars, managerVars, cfg, costHTML,
                   costMu, costSuccess, costFailure, ksnap, stores, qpc, qhtml, served>>

\* lts.costMu.Lock(): the writer announces itself ...
CostLockAnnounce ==
    /\ KAt("lock")
    /\ costMu' = [costMu EXCEPT !.pending = TRUE]
    /\ KGoto("locking")
    /\ UNCHANGED <<storageVars, taskVars, renderVars, pctVars, spanVars, samplerVars, viewVars, managerVars, cfg, costHTML,
                   costSuccess, costFailure, kfetch, ksnap, nFetches, stores,
                   qpc, qhtml, served>>

\* ... and has the lock once the readers inside have left
CostLockAcquire ==
    /\ KAt("locking")
    /\ costMu.readers = 0
    /\ costMu' = [costMu EXCEPT !.pending = FALSE, !.writer = TRUE]
    /\ KGoto("store")
    /\ UNCHANGED <<storageVars, taskVars, renderVars, pctVars, spanVars, samplerVars, viewVars, managerVars, cfg, costHTML,
                   costSuccess, costFailure, kfetch, ksnap, nFetches, stores,
                   qpc, qhtml, served>>

\* the fragment the refresher assigns at this point of the loop
fragmentToStore ==
    IF cfg # "enabled" THEN DisabledHTML
    ELSE IF kfetch.err = "nil" THEN generateCostHTML(kfetch.costs, nFetches)
    ELSE FailedHTML(nFetches)

\* variant: a failed first fetch leaves costHTML as it is
CostStoreUnlessFailed ==
    /\ KAt("store")
    /\ IF cfg = "enabled" /\ kfetch.err # "nil"
       THEN UNCHANGED <<costHTML, stores>>
       ELSE /\ costHTML' = fragmentToStore
            /\ stores' = Append(stores, fragmentToStore)
    /\ KGoto(IF cfg # "enabled" \/ ksnap.periodic THEN "unlock" ELSE "count")
    /\ UNCHANGED <<storageVars, taskVars, renderVars, pctVars, spanVars, samplerVars, viewVars, managerVars, cfg, costMu,
                   costSuccess, costFailure, kfetch, ksnap, nFetches, qpc, qhtml, served>>

\* lts.costHTML = ...: the disabled fragment, the failed-to-fetch fragment
\* (first fetch only) or the table
CostStore ==
    /\ KAt("store")
    /\ costHTML' = fragmentToStore
    /\ stores' = Append(stores, fragmentToStore)
    /\ KGoto(IF cfg # "enabled" \/ ksnap.periodic THEN "unlock" ELSE "count")
    /\ UNCHANGED <<storageVars, taskVars, renderVars, pctVars, spanVars, samplerVars, viewVars, managerVars, cfg, costMu,
                   costSuccess, costFailure, kfetch, ksnap, nFetches, qpc, qhtml, served>>

\* variant: a failure is counted as a success too
CostCountBoth ==
    /\ KAt("count")
    /\ costSuccess' = costSuccess + 1
    /\ costFailure' = IF kfetch.err = "nil" THEN costFailure ELSE costFailure + 1
    /\ KGoto(IF ksnap.periodic THEN "wait" ELSE "unlock")
    /\ UNCHANGED <<storageVars, taskVars, renderVars, pctVars, spanVars, samplerVars, viewVars, managerVars, cfg, costHTML,
                   costMu, kfetch, ksnap, nFetches, stores, qpc, qhtml, served>>

\* costFailure.Add(ctx, 1) / costSuccess.Add(ctx, 1): inside the lock after
\* the first fetch, outside it (and back to the select) after a later one
CostCount ==
    /\ KAt("count")
    /\ costSuccess' = IF kfetch.err = "nil" THEN costSuccess + 1 ELSE costSuccess
    /\ costFailure' = IF kfetch.err = "nil" THEN costFailure ELSE costFailure + 1
    /\ KGoto(IF ksnap.periodic THEN "wait" ELSE "unlock")
    /\ UNCHANGED <<storageVars, taskVars, renderVars, pctVars, spanVars, samplerVars, viewVars, managerVars, cfg, costHTML,
                   costMu, kfetch, ksnap, nFetches, stores, qpc, qhtml, served>>

\* lts.costMu.Unlock(); then return (disabled), the ticker (first fetch) or
\* the success counter (later fetch)
CostUnlock ==
    /\ KAt("unlock")
    /\ costMu' = [costMu EXCEPT !.writer = FALSE]
    /\ KGoto(IF cfg # "enabled" THEN "done"
             ELSE IF ksnap.periodic THEN "count" ELSE "wait")
    /\ UNCHANGED <<storageVars, taskVars, renderVars, pctVars, spanVars, samplerVars, viewVars, managerVars, cfg, costHTML,
                   costSuccess, costFailure, kfetch, ksnap, nFetches, stores,
                   qpc, qhtml, served>>

\* case <-ctx.Done(): return
CostStop ==
    /\ KAt("wait")
    /\ ctxDone
    /\ KGoto("done")
    /\ UNCHANGED <<storageVars, taskVars, renderVars, pctVars, spanVars, samplerVars, viewVars, managerVars, cfg, costHTML,
                   costMu, costSuccess, costFailure, kfetch, ksnap, nFetches, stores,
                   qpc, qhtml, served>>

\* every step of the refresher, its fetches ending in one of the given outcomes
CostStep(outcomes) ==
    \/ \E c \in Configs : StartCost(c)
    \/ CostCheck
    \/ CostFetchBegin
    \/ \E outcome \in outcomes : CostFetchEnd(outcome)
    \/ CostLockAnnounce
    \/ CostLockAcquire
    \/ CostStore
    \/ CostCount
    \/ CostUnlock
    \/ CostStop

\* ---- Server.CostSnippet
\* s.lts.costMu.RLock()
CostSnippetRLock ==
    /\ qpc = "idle"
    /\ ~costMu.writer /\ ~costMu.pending
    /\ costMu' = [costMu EXCEPT !.readers = costMu.readers + 1]
    /\ qpc' = "read"
    /\ UNCHANGED <<storageVars, taskVars, renderVars, pctVars, spanVars, samplerVars, viewVars, managerVars, cfg, costHTML,
                   costSuccess, costFailure, kpc, kfetch, ksnap, nFetches, stores,
                   qhtml, served>>

\* costHTML := s.lts.costHTML
CostSnippetRead ==
    /\ qpc = "read"
    /\ qhtml' = costHTML
    /\ qpc' = "runlock"
    /\ UNCHANGED <<storageVars, taskVars, renderVars, pctVars, spanVars, samplerVars, viewVars, managerVars, cfg, costHTML,
                   costMu, costSuccess, costFailure, kpc, kfetch, ksnap, nFetches,
                   stores, served>>

\* s.lts.costMu.RUnlock(); w.Write(costHTML)
CostSnippetWrite ==
    /\ qpc = "runlock"
    /\ costMu' = [costMu EXCEPT !.readers = IF costMu.readers > 0
                                            THEN costMu.readers - 1 ELSE 0]
    /\ served' = [html |-> qhtml, n |-> IF served.n < MaxFetches + 2
                                        THEN served.n + 1 ELSE served.n]
    /\ qhtml' = EmptyHTML
    /\ qpc' = "idle"
    /\ UNCHANGED <<storageVars, taskVars, renderVars, pctVars, spanVars, samplerVars, viewVars, managerVars, cfg, costHTML,
                   costSuccess, costFailure, kpc, kfetch, ksnap, nFetches, stores>>

CostSnippetStep ==
    \/ CostSnippetRLock
    \/ CostSnippetRead
    \/ CostSnippetWrite

NextCost ==
    \/ CostStep(FetchOutcomes)
    \/ CostSnippetStep
    \/ Cancel

SpecCost == Init /\ [][NextCost]_vars

\* the scheduler lets the refresher and the handler run; the cancellation
\* signal may or may not come
SpecCostFair == SpecCost /\ WF_vars(CostStep(FetchOutcomes)) /\ WF_vars(CostSnippetStep)

\* ============================================================ runtime sampler
\* runtimeMetricLoop: every 5 seconds the goroutine count, m.StackSys and
\* m.HeapAlloc are recorded on the gauges the exporter later receives
\* the uint64 sizes runtime.ReadMemStats can report
MemSizes == {1, MaxInt64 - 1, MaxInt64, MaxInt64 + 1, MaxUint64}

\* variant: int64(v) without the bounds check, which wraps
memToInt64Wrapping(v) == WrapInt64(v)

\* if v >= uint64(math.MaxInt64) { math.MaxInt64 } else { int64(v) }
memToInt64(v) == IF v >= MaxInt64 THEN MaxInt64 ELSE v

\* variant: the loop samples whatever the cancellation signal says
SamplerSampleUnchecked(sizes) ==
    /\ mpc = "select"
    /\ \E heap \in sizes, stack \in sizes :
          rec' = [goroutines |-> 1, heap |-> memToInt64(heap), stack |-> memToInt64(stack),
                  heapRead |-> heap, stackRead |-> stack]
    /\ mpc' = "sleep"
    /\ UNCHANGED <<storageVars, taskVars, renderVars, pctVars, spanVars, costVars, viewVars, managerVars>>

\* default: runtime.ReadMemStats(&m); goRunNum.Record; goStackAlloc.Record;
\* goHeapAlloc.Record
SamplerSample(sizes) ==
    /\ mpc = "select"
    /\ ~ctxDone
    /\ \E heap \in sizes, stack \in sizes :
          rec' = [goroutines |-> 1, heap |-> memToInt64(heap), stack |-> memToInt64(stack),
                  heapRead |-> heap, stackRead |-> stack]
    /\ mpc' = "sleep"
    /\ UNCHANGED <<storageVars, taskVars, renderVars, pctVars, spanVars, costVars, viewVars, managerVars>>

\* time.Sleep(5 * time.Second) is over
SamplerWake ==
    /\ mpc = "sleep"
    /\ mpc' = "select"
    /\ UNCHANGED <<storageVars, taskVars, renderVars, pctVars, spanVars, costVars, viewVars, managerVars, rec>>

\* case <-ctx.Done(): return
SamplerStop ==
    /\ mpc = "select"
    /\ ctxDone
    /\ mpc' = "done"
    /\ UNCHANGED <<storageVars, taskVars, renderVars, pctVars, spanVars, costVars, viewVars, managerVars, rec>>

SamplerStep(sizes) ==
    \/ SamplerSample(sizes)
    \/ SamplerWake
    \/ SamplerStop

\* ---- the sampler beside one exporter that receives histograms with counts
\* above math.MaxInt64, until and after the cancellation
RuntimePointSeqs == {<<PointHuge>>}

NextRuntime ==
    \/ ExportStep(1, ConcGaugeNames, PageSumNames, PageValues, ConcHistNames,
                  RuntimePointSeqs)
    \/ SamplerStep(MemSizes)
    \/ Cancel

SpecRuntime == Init /\ [][NextRuntime]_vars

\* ============================================================ article views
\* Server.Article records each article it serves on the counter
\* "articles.served", once with the article attribute and once without; the
\* SDK keeps one cumulative sum per attribute set (DefaultTemporalitySelector),
\* and the periodic reader collects them and hands them to Export.
\* names asked for: the articles that exist, and one that does not
Requested == Keys \cup {"missing"}

RECURSIVE sumOver(_, _)
sumOver(f, S) ==
    IF S = {} THEN 0
    ELSE LET k == CHOOSE k \in S : TRUE IN f[k] + sumOver(f, S \ {k})

\* variant: a request for a missing article is counted in the total
ArticleLookupCountingMissing(name) ==
    /\ apc = "idle"
    /\ sumOver(answered, Requested) < MaxRequests
    /\ IF name \in Keys
       THEN /\ apc' = "add_attributed"
            /\ aname' = name
            /\ UNCHANGED <<answered, viewsTotal>>
       ELSE /\ answered' = [answered EXCEPT ![name] = @ + 1]
            /\ viewsTotal' = viewsTotal + 1
            /\ UNCHANGED <<apc, aname>>
    /\ UNCHANGED <<storageVars, taskVars, renderVars, pctVars, spanVars, costVars,
                   samplerVars, managerVars, viewsBy, collected>>

\* article, exists := s.bm.GetArticle(articleName); if !exists: http.NotFound
ArticleLookup(name) ==
    /\ apc = "idle"
    /\ sumOver(answered, Requested) < MaxRequests
    /\ IF name \in Keys
       THEN /\ apc' = "add_attributed"
            /\ aname' = name
            /\ UNCHANGED answered
       ELSE /\ answered' = [answered EXCEPT !["missing"] = @ + 1]
            /\ UNCHANGED <<apc, aname>>
    /\ UNCHANGED <<storageVars, taskVars, renderVars, pctVars, spanVars, costVars,
                   samplerVars, managerVars, viewsTotal, viewsBy, collected>>

\* s.articleViews.Add(ctx, 1, metric.WithAttributes(attribute.String("article", articleName)))
ArticleAddAttributed ==
    /\ apc = "add_attributed"
    /\ viewsBy' = [viewsBy EXCEPT ![aname] = @ + 1]
    /\ apc' = "add_plain"
    /\ UNCHANGED <<storageVars, taskVars, renderVars, pctVars, spanVars, costVars,
                   samplerVars, managerVars, viewsTotal, aname, answered, collected>>

\* s.articleViews.Add(ctx, 1)
ArticleAddPlain ==
    /\ apc = "add_plain"
    /\ viewsTotal' = viewsTotal + 1
    /\ apc' = "write"
    /\ UNCHANGED <<storageVars, taskVars, renderVars, pctVars, spanVars, costVars,
                   samplerVars, managerVars, viewsBy, aname, answered, collected>>

\* w.Write(article.Content): the request is answered
ArticleWrite ==
    /\ apc = "write"
    /\ answered' = [answered EXCEPT ![aname] = @ + 1]
    /\ apc' = "idle"
    /\ aname' = "none"
    /\ UNCHANGED <<storageVars, taskVars, renderVars, pctVars, spanVars, costVars,
                   samplerVars, managerVars, viewsTotal, viewsBy, collected>>

\* the periodic reader collects the counter's sums, between two Export calls
Collect ==
    /\ pc[1] = "idle"
    /\ collected' = [total |-> viewsTotal, by |-> viewsBy,
                     answered |-> sumOver(answered, Requested),
                     taken |-> Len(exported)]
    /\ collected' # collected
    /\ UNCHANGED <<storageVars, taskVars, renderVars, pctVars, spanVars, costVars,
                   samplerVars, managerVars, viewsTotal, viewsBy, apc, aname, answered>>

\* the data points of the collection: one for each attribute set recorded
pointsCollected ==
    {[value |-> collected.total, attr |-> NoAttr] : z \in {k \in {0} : collected.total > 0}}
      \cup {[value |-> collected.by[k], attr |-> [key |-> "article", val |-> k]] :
              k \in {k \in Keys : collected.by[k] > 0}}

\* the ones Export has not taken yet
pointsPending ==
    {p \in pointsCollected :
        \A i \in (collected.taken + 1)..Len(exported) : exported[i].attr # p.attr}

\* Export on the collection: the metric "articles.served" with its points in
\* any order, each once, and the return when all are taken
ExportCollected ==
    \/ collected.taken = Len(exported) /\ ExportCall(1)
    \/ pointsPending # {} /\ PointsMetric(1, "sum", "articles.served")
    \/ \E p \in pointsPending : p.attr = NoAttr /\ SumPointPlain(1, p.value, p.attr)
    \/ \E p \in pointsPending : p.attr # NoAttr /\ SumPointAttributed(1, p.value, p.attr)
    \/ ValidateLookup(1)
    \/ ValidateAssignBegin(1)
    \/ ValidateAssignEnd(1)
    \/ ValidateInit(1)
    \/ ShardStore(1)
    \/ pointsPending = {} /\ EndPoints(1)
    \/ pointsPending = {} /\ ExportReturn(1)

NextViews ==
    \/ \E name \in Requested : ArticleLookup(name)
    \/ ArticleAddAttributed
    \/ ArticleAddPlain
    \/ ArticleWrite
    \/ Collect
    \/ ExportCollected

SpecViews == Init /\ [][NextViews]_vars

\* ================================================================= shutdown
\* The three loops of Start from the moment the cancellation signal has
\* fired.  At that moment Write has been called all but twice of the calls it
\* will be, up to MaxQueuedAtCancel of the spans are still queued, the
\* consumer has stored the span before them and is at its select; the
\* sampler is in its sleep; the refresher goroutine is about to run.
MaxQueuedAtCancel == 2

SpansAtCancel(q) ==
    [i \in 1..q |-> Span(MaxSpans - 2 - q + i, TRUE)]

SampleAtCancel == [goroutines |-> 1, heap |-> 1, stack |-> 1, heapRead |-> 1, stackRead |-> 1]

InitShutdown ==
    /\ reqDurTotalCount = 0
    /\ reqDurBucketValues = ZeroBuckets
    /\ StorageInit
    /\ TasksInit
    /\ CostInit
    /\ ViewsInit
    /\ ManagerInit
    /\ pctOut = [k \in 1..4 |-> NotCalled]
    /\ pctsOut = <<>>
    /\ ctxDone = TRUE
    /\ \E q \in 0..MaxQueuedAtCancel :
          /\ spanChan = SpansAtCancel(q)
          /\ latestSpan = Slot(Span(MaxSpans - 2 - q, TRUE))
          /\ nTaken = MaxSpans - 2 - q
    /\ nWritten = MaxSpans - 2
    /\ lastQueued = MaxSpans - 2
    /\ dropped = <<>>
    /\ nBad = 0
    /\ spanMu = [writer |-> FALSE, pending |-> FALSE, readers |-> 0]
    /\ cpc = "select"
    /\ cspan = ZeroSpan
    /\ jpc = "idle"
    /\ jread = Slot(ZeroSpan)
    /\ jret = NoResult
    /\ mpc = "sleep"
    /\ rec = SampleAtCancel

ConsumerStep ==
    \/ ConsumerReceive
    \/ ConsumerStop
    \/ ConsumerLockAnnounce
    \/ ConsumerLockAcquire
    \/ ConsumerStoreHead
    \/ ConsumerStoreTail
    \/ ConsumerUnlock

\* a fetch made with the cancelled context: client.GetCostAndUsage(ctx, input)
\* returns the context's error
CancelledFetchOutcomes == {[err |-> "failed", costs |-> "none"]}

NextShutdown ==
    \/ Write(TRUE)
    \/ ConsumerStep
    \/ CostStep(CancelledFetchOutcomes)
    \/ SamplerWake
    \/ SamplerStop

\* every goroutine gets to run; a select with several ready cases picks one
\* at random, so a case that is ready again and again is picked in the end
SpecShutdown ==
    /\ InitShutdown
    /\ [][NextShutdown]_vars
    /\ WF_vars(ConsumerStep) /\ SF_vars(ConsumerStop)
    /\ WF_vars(CostStep(CancelledFetchOutcomes)) /\ SF_vars(CostStop)
    /\ WF_vars(SamplerWake \/ SamplerStop)

\* ============================================================ query surface
\* The three handlers that read the storage, writeMetricSnippet, CostSnippet
\* and GetLastSpanJSON (behind LastTrace), running at once over storage the
\* writers have left: untouched since construction, or holding what an
\* export, a cost refresh and a span have stored.
\* the storage as constructed, or after Export has taken an articles.served
\* point of 2 for article "x" and the duration histogram PointFirst
StorageAtQuery ==
    \/ /\ reqDurTotalCount = 0
       /\ reqDurBucketValues = ZeroBuckets
       /\ StorageInit
       /\ exported = <<>>
       /\ ret = [e \in Exporters |-> "none"]
    \/ /\ reqDurTotalCount = 5
       /\ reqDurBucketValues = [ZeroBuckets EXCEPT ![1] = 3, ![2] = 2]
       /\ reqDur50 = 4 /\ reqDur90 = 9 /\ reqDur95 = 9 /\ reqDur99 = 10
       /\ numGoRo = 0 /\ heapAlloc = 0 /\ stackAlloc = 0
       /\ articlesServed = 0 /\ reqBlocked = 0 /\ roboticVisitors = 0
       /\ servedCountPerArticle = [k \in Keys |-> IF k = "x" THEN 1 ELSE NoShard]
       /\ reqBlockedByReason = [k \in Keys |-> NoShard]
       /\ shardValue = <<2>>
       /\ mapWriting = {}
       /\ freqUpdateMu = NoTask
       /\ exported = << [kind |-> "sum", name |-> "articles.served", value |-> 2,
                         attr |-> [key |-> "article", val |-> "x"]],
                        [kind |-> "histogram", name |-> "http.server.request.duration",
                         points |-> <<PointFirst>>] >>
       /\ ret = [e \in Exporters |-> IF e = 1 THEN "nil" ELSE "none"]

\* the cost fragment before Start, after the disabled branch, or after a
\* successful initial fetch
CostAtQuery ==
    \/ CostInit
    \/ /\ cfg = "nil"
       /\ costHTML = DisabledHTML
       /\ costSuccess = 0 /\ costFailure = 0
       /\ kpc = "done"
       /\ kfetch = NoFetch
       /\ nFetches = 0
       /\ stores = <<DisabledHTML>>
       /\ costMu = [writer |-> FALSE, pending |-> FALSE, readers |-> 0]
       /\ ksnap = NoSnapshot
       /\ qpc = "idle" /\ qhtml = <<>> /\ served = [html |-> <<>>, n |-> 0]
    \/ /\ cfg = "enabled"
       /\ costHTML = generateCostHTML("costs-a", 1)
       /\ costSuccess = 1 /\ costFailure = 0
       /\ kpc = "wait"
       /\ kfetch = [err |-> "nil", costs |-> "costs-a"]
       /\ nFetches = 1
       /\ stores = <<generateCostHTML("costs-a", 1)>>
       /\ costMu = [writer |-> FALSE, pending |-> FALSE, readers |-> 0]
       /\ ksnap = NoSnapshot
       /\ qpc = "idle" /\ qhtml = <<>> /\ served = [html |-> <<>>, n |-> 0]

\* the span slot before any span, or after the consumer has stored the first
\* span written, one json.Marshal can or cannot encode
SpanAtQuery ==
    \/ SpanInit
    \/ \E encodable \in BOOLEAN :
          /\ spanChan = <<>>
          /\ latestSpan = Slot(Span(1, encodable))
          /\ spanMu = [writer |-> FALSE, pending |-> FALSE, readers |-> 0]
          /\ ctxDone = FALSE
          /\ cpc = "select"
          /\ cspan = ZeroSpan
          /\ jpc = "idle"
          /\ jread = Slot(ZeroSpan)
          /\ jret = NoResult
          /\ nWritten = 1
          /\ dropped = <<>>
          /\ lastQueued = 1
          /\ nBad = IF encodable THEN 0 ELSE 1
          /\ nTaken = 1

InitQuery ==
    /\ StorageAtQuery
    /\ CostAtQuery
    /\ SpanAtQuery
    /\ SamplerInit
    /\ ViewsInit
    /\ ManagerInit
    /\ pc = [e \in Exporters |-> "idle"]
    /\ cur = [e \in Exporters |-> NoLocals]
    /\ fault = "none"
    /\ rpc = "idle"
    /\ rd = NoRender
    /\ page = <<>>
    /\ rstart = [taken |-> 0, quiet |-> TRUE]
    /\ pctOut = [k \in 1..4 |-> NotCalled]
    /\ pctsOut = <<>>

NextQuery ==
    \/ RenderCall
    \/ RenderTotal
    \/ RenderRangeBegin
    \/ RenderRangeEnd
    \/ RenderLookup
    \/ RenderCounterLoad
    \/ RenderScalar
    \/ CostSnippetStep
    \/ LastSpanRLock
    \/ LastSpanReadHead
    \/ LastSpanReadTail
    \/ LastSpanReturn

SpecQuery == InitQuery /\ [][NextQuery]_vars

\* ================================================================ the guards
\* The three guards, freqUpdateMu (UpdateServerFreqHistogram), spanMu (the
\* span consumer against GetLastSpanJSON) and costMu (costUpdateLoop against
\* CostSnippet), with every task that takes one of them about to take it.
\* a duration histogram whose first four buckets each reach one of the four
\* ranks
PointSplit ==
    [count |-> 100, bounds |-> <<5000, 10000, 25000, 50000>>,
     bucketCounts |-> <<50, 40, 5, 5, 0>>]

\* both exporters have stored the duration histogram PointSplit, the second
\* over the first, and are at freqUpdateMu.Lock()
StorageAtGuards ==
    /\ StorageInit
    /\ reqDurTotalCount = 100
    /\ reqDurBucketValues = [ZeroBuckets EXCEPT ![1] = 50, ![2] = 40, ![3] = 5, ![4] = 5]
    /\ pc = [e \in Exporters |-> "u_lock"]
    /\ cur = [e \in Exporters |->
                [NoLocals EXCEPT !.kind = "histogram",
                                 !.name = "http.server.request.duration",
                                 !.point = PointSplit]]
    /\ ret = [e \in Exporters |-> "none"]
    /\ exported = [e \in Exporters |->
                     [kind |-> "histogram", name |-> "http.server.request.duration",
                      points |-> <<PointSplit>>]]
    /\ fault = "none"

\* the refresher is at costMu.Lock(): on the disabled branch, after a failed
\* first fetch, or after a successful later fetch
CostAtGuards ==
    /\ kpc = "lock"
    /\ costMu = [writer |-> FALSE, pending |-> FALSE, readers |-> 0]
    /\ costSuccess = 0
    /\ qpc = "idle" /\ qhtml = <<>> /\ served = [html |-> <<>>, n |-> 0]
    /\ \/ /\ cfg = "nil"
          /\ costHTML = <<>>
          /\ costFailure = 0
          /\ kfetch = NoFetch
          /\ nFetches = 0
          /\ stores = <<>>
          /\ ksnap = NoSnapshot
       \/ /\ cfg = "enabled"
          /\ costHTML = <<>>
          /\ costFailure = 0
          /\ kfetch = [err |-> "failed", costs |-> "none"]
          /\ nFetches = 1
          /\ stores = <<>>
          /\ ksnap = NoSnapshot
       \/ /\ cfg = "enabled"
          /\ costHTML = FailedHTML(1)
          /\ costFailure = 1
          /\ kfetch = [err |-> "nil", costs |-> "costs-a"]
          /\ nFetches = 2
          /\ stores = <<FailedHTML(1)>>
          /\ ksnap = [html |-> FailedHTML(1), success |-> 0, failure |-> 1,
                      periodic |-> TRUE,
                      previous |-> [err |-> "failed", costs |-> "none"]]

\* the consumer is at its select with one span queued
SpanAtGuards ==
    \E encodable \in BOOLEAN :
       /\ spanChan = <<Span(1, encodable)>>
       /\ latestSpan = Slot(ZeroSpan)
       /\ spanMu = [writer |-> FALSE, pending |-> FALSE, readers |-> 0]
       /\ ctxDone = FALSE
       /\ cpc = "select"
       /\ cspan = ZeroSpan
       /\ jpc = "idle"
       /\ jread = Slot(ZeroSpan)
       /\ jret = NoResult
       /\ nWritten = 1
       /\ dropped = <<>>
       /\ lastQueued = 1
       /\ nBad = IF encodable THEN 0 ELSE 1
       /\ nTaken = 0

InitGuards ==
    /\ StorageAtGuards
    /\ CostAtGuards
    /\ SpanAtGuards
    /\ SamplerInit
    /\ ViewsInit
    /\ ManagerInit
    /\ rpc = "idle"
    /\ rd = NoRender
    /\ page = <<>>
    /\ rstart = [taken |-> 0, quiet |-> TRUE]
    /\ pctOut = [k \in 1..4 |-> NotCalled]
    /\ pctsOut = <<>>

\* UpdateServerFreqHistogram from its Lock to the return of Export
recomputeStep(e) ==
    \/ UpdateLock(e)
    \/ UpdateLoadTotal(e)
    \/ UpdateWalk(e)
    \/ UpdateStore(e)
    \/ UpdateUnlock(e)
    \/ ExportReturn(e)

\* the consumer from its receive to spanMu.Unlock()
consumerGuarded ==
    \/ ConsumerReceive
    \/ ConsumerLockAnnounce
    \/ ConsumerLockAcquire
    \/ ConsumerStoreHead
    \/ ConsumerStoreTail
    \/ ConsumerUnlock

\* the refresher from costMu.Lock() to the counter after costMu.Unlock()
refresherGuarded ==
    \/ CostLockAnnounce
    \/ CostLockAcquire
    \/ CostStore
    \/ CostCount
    \/ CostUnlock

\* GetLastSpanJSON from after its RLock to its return
spanReaderInside ==
    \/ LastSpanReadHead
    \/ LastSpanReadTail
    \/ LastSpanReturn

\* CostSnippet from after its RLock to its write
costReaderInside ==
    \/ CostSnippetRead
    \/ CostSnippetWrite

\* GetLastSpanJSON is called again and again; CostSnippet, whose answers are
\* counted, is called once
NextGuards ==
    \/ \E e \in Exporters : recomputeStep(e)
    \/ consumerGuarded
    \/ refresherGuarded
    \/ LastSpanRLock
    \/ spanReaderInside
    \/ CostSnippetRLock /\ served.n = 0
    \/ costReaderInside

SpecGuards == InitGuards /\ [][NextGuards]_vars

\* =============================================================== BlogManager
\* variant: the send has no default case and the channel takes what comes
sendAlways(outside) ==
    /\ updateChan' = updateChan + 1
    /\ upd' = [upd EXCEPT !.queued = upd.queued + 1,
                          !.triggers = IF outside THEN upd.triggers + 1
                                       ELSE upd.triggers]

\* select { case bm.updateChan <- struct{}{}: ... default: ... }: what the
\* send leaves in the channel and in the record of sends, for a call from
\* outside the listener or from its sighup case
sendOrSkip(outside) ==
    IF updateChan < UpdateChanCap
    THEN /\ updateChan' = updateChan + 1
         /\ upd' = [upd EXCEPT !.queued = upd.queued + 1,
                               !.triggers = IF outside THEN upd.triggers + 1
                                            ELSE upd.triggers]
    ELSE /\ updateChan' = updateChan
         /\ upd' = [upd EXCEPT !.dropped = upd.dropped + 1,
                               !.triggers = IF outside THEN upd.triggers + 1
                                            ELSE upd.triggers]

\* listenForUpdates: signal.Notify(sighup, syscall.SIGHUP); go func() { for { select
ListenForUpdates ==
    /\ lpc = "off"
    /\ lpc' = "select"
    /\ UNCHANGED <<storageVars, taskVars, renderVars, pctVars, spanVars, costVars,
                   samplerVars, viewVars, updateChan, sighup, upd>>

\* the runtime delivers a SIGHUP to the listener's channel of capacity 1, or
\* drops it when the channel is full
Signal ==
    /\ lpc # "off"
    /\ upd.signals < MaxSignals
    /\ sighup' = IF sighup < SighupChanCap THEN sighup + 1 ELSE sighup
    /\ upd' = [upd EXCEPT !.signals = upd.signals + 1]
    /\ UNCHANGED <<storageVars, taskVars, renderVars, pctVars, spanVars, costVars,
                   samplerVars, viewVars, updateChan, lpc>>

\* BlogManager.TriggerUpdate, called from outside the listener
TriggerUpdate ==
    /\ upd.triggers < MaxTriggers
    /\ sendOrSkip(TRUE)
    /\ UNCHANGED <<storageVars, taskVars, renderVars, pctVars, spanVars, costVars,
                   samplerVars, viewVars, sighup, lpc>>

\* case <-ctx.Done(): return
ListenerDone ==
    /\ lpc = "select"
    /\ ctxDone
    /\ lpc' = "done"
    /\ UNCHANGED <<storageVars, taskVars, renderVars, pctVars, spanVars, costVars,
                   samplerVars, viewVars, updateChan, sighup, upd>>

\* case <-sighup:
ListenerSighup ==
    /\ lpc = "select"
    /\ sighup > 0
    /\ sighup' = sighup - 1
    /\ lpc' = "sighup"
    /\ UNCHANGED <<storageVars, taskVars, renderVars, pctVars, spanVars, costVars,
                   samplerVars, viewVars, updateChan, upd>>

\* bm.TriggerUpdate() in the sighup case
ListenerTriggerUpdate ==
    /\ lpc = "sighup"
    /\ sendOrSkip(FALSE)
    /\ lpc' = "select"
    /\ UNCHANGED <<storageVars, taskVars, renderVars, pctVars, spanVars, costVars,
                   samplerVars, viewVars, sighup>>

\* case <-bm.updateChan:
ListenerReceive ==
    /\ lpc = "select"
    /\ updateChan > 0
    /\ updateChan' = updateChan - 1
    /\ upd' = [upd EXCEPT !.consumed = upd.consumed + 1]
    /\ lpc' = "updating"
    /\ UNCHANGED <<storageVars, taskVars, renderVars, pctVars, spanVars, costVars,
                   samplerVars, viewVars, sighup>>

\* bm.updateContent() returns, with an error (logged) or without
UpdateContent ==
    /\ lpc = "updating"
    /\ upd' = [upd EXCEPT !.refreshes = upd.refreshes + 1]
    /\ lpc' = "select"
    /\ UNCHANGED <<storageVars, taskVars, renderVars, pctVars, spanVars, costVars,
                   samplerVars, viewVars, updateChan, sighup>>

NextManager ==
    \/ ListenForUpdates
    \/ Signal
    \/ TriggerUpdate
    \/ ListenerDone
    \/ ListenerSighup
    \/ ListenerTriggerUpdate
    \/ ListenerReceive
    \/ UpdateContent
    \/ Cancel

\* the goroutine is started and runs on; of the cases of its select that are
\* ready again and again each is chosen in the end
SpecManager ==
    /\ Init
    /\ [][NextManager]_vars
    /\ WF_vars(ListenForUpdates)
    /\ WF_vars(ListenerTriggerUpdate)
    /\ WF_vars(UpdateContent)
    /\ SF_vars(ListenerReceive)

\* ================================================================ properties
called == pctOut[1] # NotCalled

cached == <<reqDur50, reqDur90, reqDur95, reqDur99>>

\* the sum of the first i bucket counts
RECURSIVE sumUpTo(_, _)
sumUpTo(buckets, i) == IF i = 0 THEN 0 ELSE buckets[i] + sumUpTo(buckets, i - 1)

\* the buckets at which the running count reaches the rank total*p/100
reaching(total, buckets, p) ==
    {i \in Buckets : 100 * sumUpTo(buckets, i) >= total * p}

firstOf(S) == CHOOSE i \in S : \A j \in S : i <= j

\* v is the rational x/d (d > 0) rounded to the nearest integer, a half
\* rounded away from zero
isRounded(v, x, d) ==
    /\ 2 * (v * d - x) <= d
    /\ 2 * (x - v * d) <= d
    /\ 2 * (v * d - x) = d => x >= 0
    /\ 2 * (x - v * d) = d => x <= 0

\* the Export calls so far that carried the request-duration histogram with
\* at least one data point, as places in the log
durationExports ==
    {n \in 1..Len(exported) :
        /\ exported[n].kind = "histogram"
        /\ exported[n].name = "http.server.request.duration"
        /\ exported[n].points # <<>>}

lastOf(S) == CHOOSE n \in S : \A m \in S : m <= n

\* the stored histogram holds data point P: its total, and the count of
\* every bucket one of its bounds names
holdsPoint(P) ==
    /\ reqDurTotalCount = safeUint64ToInt64(P.count)
    /\ \A i \in 1..Len(P.bounds) :
          bucketOfBound(P, i) # 0 =>
             reqDurBucketValues[bucketOfBound(P, i)] = safeUint64ToInt64(P.bucketCounts[i])

\* ---------------------------------------------------------------------- C1
\* C1: for every total count and every bucket counts, the four results of
\* calcPercentile are in order: p50 <= p90 <= p95 <= p99.
C1_Monotone ==
    called =>
       /\ pctOut[1].val <= pctOut[2].val
       /\ pctOut[2].val <= pctOut[3].val
       /\ pctOut[3].val <= pctOut[4].val

\* ---------------------------------------------------------------------- C2
\* C2: for a positive total, calcPercentile(p) is the interpolation, rounded
\* to the nearest integer, inside the first bucket whose running count reaches
\* the rank total*p/100 when that bucket's count is positive; the even
\* distribution gives p50 = 10 and the production data give p50 = 3, p99 = 8.
C2_Interpolation ==
    called /\ reqDurTotalCount > 0 =>
       /\ \A k \in 1..4 :
             LET p == Percentiles[k]
                 S == reaching(reqDurTotalCount, reqDurBucketValues, p)
             IN  S # {} =>
                    LET i == firstOf(S)
                        count == reqDurBucketValues[i]
                        before == sumUpTo(reqDurBucketValues, i) - count
                        width == reqFreqBound[i] - previousBound(i)
                    IN  count > 0 =>
                           isRounded(pctOut[k].val,
                                     previousBound(i) * 100 * count
                                        + (reqDurTotalCount * p - 100 * before) * width,
                                     100 * count)
       /\ reqDurTotalCount = 100 /\ reqDurBucketValues = EvenDistribution =>
             pctOut[1].val = 10
       /\ reqDurTotalCount = 33 /\ reqDurBucketValues = ProductionData =>
             pctOut[1].val = 3 /\ pctOut[4].val = 8

\* ---------------------------------------------------------------------- C3
\* C3: while the total count is 0, calcPercentile(p) is 0 with no error for
\* every p whatever the buckets hold, and once the recompute step has stored
\* its results the four cached percentiles are 0.
C3_EmptyHistogram ==
    reqDurTotalCount = 0 =>
       /\ \A k \in 1..4 :
             calcPercentile(reqDurTotalCount, reqDurBucketValues, Percentiles[k])
                = [val |-> 0, err |-> "nil"]
       /\ pc[1] = "u_unlock" => \A k \in 1..4 : cached[k] = 0

\* the recompute has run on a total of 0 over non-empty buckets, after an
\* export that had left percentiles
C3_Witness ==
    /\ Len(exported) = 2
    /\ exported[1].kind = "histogram" /\ exported[1].points = <<PointSecond>>
    /\ exported[2].kind = "histogram" /\ exported[2].points = <<PointZeroTotal>>
    /\ pc[1] = "u_unlock"
    /\ reqDurTotalCount = 0
    /\ reqDurBucketValues[1] = 10 /\ reqDurBucketValues[2] = 4
    /\ \A k \in 1..4 : cached[k] = 0

\* ---------------------------------------------------------------------- C4
\* C4: for a positive total whose rank total*p/100 no running count reaches
\* (the buckets sum to less), calcPercentile(p) is the last boundary, 10000,
\* with no error.
C4_Fallback ==
    called /\ reqDurTotalCount > 0 =>
       \A k \in 1..4 :
          100 * sumUpTo(reqDurBucketValues, NumBuckets)
                < reqDurTotalCount * Percentiles[k]
             => pctOut[k] = [val |-> 10000, err |-> "nil"]

\* ---------------------------------------------------------------------- C5
\* C5: histogram ingestion replaces: outside the histogram branch of Export,
\* the stored total and every bucket named by the last exported histogram
\* are those of its last data point, whatever was exported before.
C5_LastWriteWins ==
    durationExports # {} /\ pc[1] \in {"idle", "metrics", "points"} =>
       LET points == exported[lastOf(durationExports)].points
       IN  holdsPoint(points[Len(points)])

\* totals 5 then 15, the second export carrying both data points
C5_Witness ==
    /\ Len(exported) = 2
    /\ exported[1].kind = "histogram" /\ exported[1].points = <<PointFirst>>
    /\ exported[2].kind = "histogram"
    /\ exported[2].points = <<PointFirst, PointSecond>>
    /\ pc[1] = "idle" /\ ret[1] = "nil"
    /\ reqDurTotalCount = 15
    /\ reqDurBucketValues[1] = 10 /\ reqDurBucketValues[2] = 5

\* ---------------------------------------------------------------------- C6
\* C6: one histogram export overwrites all 14 buckets: once its bucket loop is
\* over, every bucket holds the count the exported point gives it, and 0 if
\* the point has no bound for it; no count of an earlier export is left.
C6_AllBucketsOverwritten ==
    pc[1] \in {"u_lock", "u_total", "u_walk", "u_store", "u_unlock"} =>
       LET P == cur[1].point
       IN  \A b \in Buckets :
              IF \E i \in 1..Len(P.bounds) : bucketOfBound(P, i) = b
              THEN \E i \in 1..Len(P.bounds) :
                      /\ bucketOfBound(P, i) = b
                      /\ reqDurBucketValues[b] = safeUint64ToInt64(P.bucketCounts[i])
              ELSE reqDurBucketValues[b] = 0

C8_ShardNeverReplaced ==
    \A s \in 1..Len(shardValue) :
       \E k \in Keys : servedCountPerArticle[k] = s \/ reqBlockedByReason[k] = s

\* ---------------------------------------------------------------------- C9
\* C9: inserting a shard excludes the render path's reads of the map: the
\* exporter is never between its check and the end of its insert while the
\* handler is inside its iteration over the same map.
C9_InsertExcludesRender ==
    ~ /\ pc[1] \in {"va_assign", "va_assigning"}
      /\ rpc = "ranging"
      /\ rd.map = mapOfTask(1)

\* --------------------------------------------------------------------- C10
\* C10: Export returns normally, with a nil error, for every batch, a
\* histogram metric without data points included: no Export call ends in a
\* panic, and a call that is over has returned nil.
C10_ExportReturnsNil ==
    \A e \in Exporters :
       /\ pc[e] # "panicked"
       /\ pc[e] = "idle" => ret[e] \in {"none", "nil"}

\* --------------------------------------------------------------------- C11
\* the names Export's switch knows, by data type
recognised(kind, name) ==
    CASE kind = "gauge" ->
            name \in {"goroutine.count", "blog.heap.alloc.bytes", "blog.stack.alloc.bytes"}
      [] kind = "sum" ->
            name \in {"articles.served", "request.blocked", "robotic.visitors"}
      [] OTHER -> name = "http.server.request.duration"

\* C11: taking a point whose name is not one of those recognised for its data
\* type changes no counter, gauge, shard map, bucket, total count or cached
\* percentile, and raises no error.
C11_UnknownNameIgnored ==
    [][ (/\ Len(exported') = Len(exported) + 1
         /\ ~ recognised(exported'[Len(exported')].kind, exported'[Len(exported')].name))
        => (UNCHANGED storageVars /\ fault' = "none") ]_vars

\* the goroutine gauge was stored, then a sum point of the same name was
\* exported, and the call returned
C11_Witness ==
    /\ Len(exported) = 2
    /\ exported[1].kind = "gauge" /\ exported[1].name = "goroutine.count"
    /\ exported[1].value = 2
    /\ exported[2].kind = "sum" /\ exported[2].name = "goroutine.count"
    /\ exported[2].value = 1
    /\ numGoRo = 2
    /\ pc[1] = "idle" /\ ret[1] = "nil"

\* --------------------------------------------------------------------- C12
\* C12: Write never blocks: whatever the queue holds and wherever the
\* consumer is (at its select, busy storing, or gone after cancellation), a
\* Write call can take its step, and the step either queues the span or
\* drops it.
C12_WriteNeverBlocks ==
    nWritten < MaxSpans =>
       ENABLED (/\ Write(TRUE)
                /\ \/ spanChan' = Append(spanChan, Span(nWritten + 1, TRUE))
                      /\ dropped' = dropped
                   \/ spanChan' = spanChan
                      /\ dropped' = Append(dropped, nWritten + 1))

\* the queue is full, the consumer has stopped, and a Write has dropped
C12_Witness ==
    /\ Len(spanChan) = SpanChanCap
    /\ cpc = "done"
    /\ ctxDone
    /\ dropped # <<>>
    /\ nWritten < MaxSpans

\* --------------------------------------------------------------------- C13
queuedIds == [k \in 1..Len(spanChan) |-> spanChan[k].id]

\* C13: the queue never holds more than 10 spans, and while the consumer has
\* received nothing, N > 10 writes leave exactly the first 10 spans queued in
\* write order and the other N - 10 dropped.
C13_FirstTenKept ==
    /\ Len(spanChan) <= 10
    /\ nTaken = 0 /\ nWritten > 10 =>
          /\ queuedIds = [k \in 1..10 |-> k]
          /\ dropped = [k \in 1..(nWritten - 10) |-> 10 + k]

\* twelve writes, none received: ten queued, two dropped
C13_Witness ==
    /\ nTaken = 0
    /\ nWritten = 12
    /\ Len(spanChan) = 10
    /\ dropped = <<11, 12>>

\* --------------------------------------------------------------------- C14
\* the consumer is back at its select and the queue is empty
drained == spanChan = <<>> /\ cpc = "select"

\* C14, as claimed: once the consumer has drained the queue, the latest-span
\* slot holds the span of the most recent Write call.
C14_LatestIsLastWritten ==
    drained => latestSpan.head = nWritten /\ latestSpan.tail = nWritten

\* C14, amended: once the consumer has drained the queue, the latest-span
\* slot holds the span of the most recent Write call that found room in the
\* queue (the zero-value span if there was none); a span written while the
\* queue was full is never stored, and the spans queued before are discarded.
C14_LatestIsLastQueued ==
    drained => latestSpan.head = lastQueued /\ latestSpan.tail = lastQueued

\* the queue was drained after a Write had been dropped
C14_Witness ==
    /\ drained
    /\ dropped # <<>>
    /\ lastQueued < nWritten
    /\ latestSpan.head = lastQueued
    /\ nTaken > 1

\* --------------------------------------------------------------------- C15
\* C15: GetLastSpanJSON returns the JSON of the zero-value span and no error
\* while no span was ever written, and what it returns without error is
\* always one whole span, also when the consumer stores meanwhile.
C15_LastSpanReadable ==
    jret # NoResult =>
       /\ nWritten = 0 => jret = [data |-> <<"{", 0, 0, "}">>, err |-> "nil"]
       /\ jret.err = "nil" => jret.data[2] = jret.data[3]

\* the call has read the zero-value span while the consumer waits for the
\* lock with the first span
C15_Witness ==
    /\ jpc = "runlock"
    /\ jread = Slot(ZeroSpan)
    /\ cpc = "locking"
    /\ cspan.id = 1


\* ---- cost refresher
costOff == cfg \in {"nil", "disabled"}

\* the refresher is between two fetches (or has returned) and the fetch it
\* made last had this outcome
settled(err) == kpc \in {"wait", "done"} /\ kfetch.err = err

tablesStored == Cardinality({i \in DOMAIN stores : stores[i][1] = "table"})

\* C16: with cost tracking disabled or no configuration, the refresher assigns
\* the "Cost tracking disabled" fragment exactly once, makes no fetch and
\* returns; from then on CostSnippet reads that fragment and the two counters
\* stay as they were
C16_DisabledWritesOnce ==
    /\ [](costOff =>
            /\ nFetches = 0
            /\ kpc \notin {"fetch", "fetching", "wait", "count"}
            /\ costSuccess = 0 /\ costFailure = 0
            /\ stores \in {<<>>, <<DisabledHTML>>}
            /\ (kpc = "done" => stores = <<DisabledHTML>> /\ costHTML = DisabledHTML))
    /\ [][(costOff /\ kpc = "done" /\ qpc = "read" /\ qpc' = "runlock")
             => qhtml' = DisabledHTML]_vars
    /\ (costOff ~> (kpc = "done"))

C16_Witness ==
    /\ cfg = "disabled"
    /\ kpc = "done"
    /\ served = [html |-> DisabledHTML, n |-> 2]

\* C17: when a periodic fetch fails after a fetch that succeeded, costHTML is
\* still the table that success stored, the failure counter is one more than
\* before the fetch and the success counter is what it was
C17_FailureKeepsSuccess ==
    (settled("failed") /\ ksnap.periodic /\ ksnap.previous.err = "nil") =>
        /\ costHTML = generateCostHTML(ksnap.previous.costs, nFetches - 1)
        /\ costHTML = stores[Len(stores)]
        /\ costHTML = ksnap.html
        /\ costFailure = ksnap.failure + 1
        /\ costSuccess = ksnap.success

C17_Witness ==
    /\ settled("failed")
    /\ ksnap.periodic
    /\ ksnap.previous.err = "nil"
    /\ nFetches = 3
    /\ costSuccess = 2

\* C18 as stated: after any failed fetch, the first one included, costHTML is
\* what it was when the fetch was made and the failure counter is one more
C18_FailureLeavesFragment ==
    settled("failed") =>
        /\ costHTML = ksnap.html
        /\ costFailure = ksnap.failure + 1

\* C18: a failed periodic fetch leaves costHTML what it was when the fetch was
\* made; a failed first fetch replaces the empty costHTML by the "Failed to
\* fetch cost data" fragment; either adds one to the failure counter and
\* leaves the success counter alone
C18_OnlyPeriodicFailureLeavesFragment ==
    settled("failed") =>
        /\ IF ksnap.periodic
           THEN costHTML = ksnap.html
           ELSE ksnap.html = EmptyHTML /\ costHTML = FailedHTML(1)
        /\ costFailure = ksnap.failure + 1
        /\ costSuccess = ksnap.success

C18_Witness ==
    /\ settled("failed")
    /\ ~ksnap.periodic
    /\ costHTML = FailedHTML(1)
    /\ costFailure = 1

\* C19: with cost tracking enabled the refresher returns only on the
\* cancellation signal, every fetch it makes is followed by the select on the
\* ticker again, and a periodic fetch that succeeds, whatever failed before
\* it, makes costHTML the table of that fetch
C19_FailuresNeverStop ==
    /\ []((cfg = "enabled" /\ kpc = "done") => ctxDone)
    /\ []((settled("nil") /\ ksnap.periodic) =>
             costHTML = generateCostHTML(kfetch.costs, nFetches))
    /\ ((cfg = "enabled" /\ kpc = "fetching") ~> (kpc = "wait"))

C19_Witness ==
    /\ kpc = "wait"
    /\ ~ctxDone
    /\ costFailure = 2
    /\ kfetch.err = "nil"
    /\ ksnap.periodic
    /\ costHTML = generateCostHTML(kfetch.costs, 3)

\* a fetch has returned and its outcome is not counted yet
outcomePending ==
    /\ cfg = "enabled"
    /\ \/ kpc \in {"lock", "locking", "store", "count"}
       \/ kpc = "unlock" /\ ksnap.periodic

C21_LoopsStopWithoutFlush ==
    /\ (ctxDone ~> (cpc = "done"))
    /\ (ctxDone ~> (mpc = "done"))
    /\ (ctxDone ~> (kpc = "done"))
    /\ [][(cpc' = "done") =>
             /\ latestSpan' = latestSpan
             /\ nTaken' = nTaken
             /\ Len(spanChan') >= Len(spanChan)]_vars

C21_Witness ==
    /\ ctxDone
    /\ cpc = "done" /\ mpc = "done" /\ kpc = "done"
    /\ Len(spanChan) = 4
    /\ latestSpan = Slot(Span(MaxSpans - 4, TRUE))

\* ---- the metrics page
\* the shard lines of map m on the page, in the order they were written
RECURSIVE linesOf(_, _)
linesOf(lines, label) ==
    IF lines = <<>> THEN <<>>
    ELSE IF Head(lines).label = label
    THEN <<Head(lines)>> \o linesOf(Tail(lines), label)
    ELSE linesOf(Tail(lines), label)

shardLabel(m) == IF m = "article" THEN "blog.articles.served." ELSE "blog.requests.blocked."

ascending(lines) ==
    \A i \in 1..(Len(lines) - 1) : lessString(lines[i].key, lines[i + 1].key)

\* the keys of map m in ascending order
RECURSIVE ascendingKeys(_)
ascendingKeys(ks) ==
    IF ks = {} THEN <<>>
    ELSE LET least == CHOOSE k \in ks : \A other \in ks \ {k} : lessString(k, other)
         IN  <<least>> \o ascendingKeys(ks \ {least})

\* the shard lines the stored state of map m stands for
listingOf(m) ==
    LET ks == ascendingKeys(keysOf(m))
    IN  [i \in 1..Len(ks) |-> Line(shardLabel(m), ks[i], shardValue[shardMap(m)[ks[i]]])]

\* the page is complete and the exporter has stored nothing since the
\* handler was entered
renderedUnchanged ==
    /\ rpc = "idle"
    /\ page # <<>>
    /\ rstart.quiet
    /\ rstart.taken = Len(exported)

\* C22: the shard lines of each attributed counter are written in ascending
\* key order whatever order the map's range yields and whatever order the
\* shards were created in, and a page rendered from an unchanged state holds,
\* for each shard present, its line with its stored value: the page is a
\* function of the state
C22_ShardLinesSorted ==
    \A m \in {"article", "blocked"} :
        /\ ascending(linesOf(page, shardLabel(m)))
        /\ renderedUnchanged => linesOf(page, shardLabel(m)) = listingOf(m)

\* "y" was created before "x", and the page lists "x" first
C22_Witness ==
    /\ renderedUnchanged
    /\ servedCountPerArticle["x"] # NoShard
    /\ servedCountPerArticle["y"] # NoShard
    /\ servedCountPerArticle["y"] < servedCountPerArticle["x"]
    /\ Len(linesOf(page, shardLabel("article"))) = 2
    /\ linesOf(page, shardLabel("article"))[1].key = "x"

\* ---- the query surface without data
isCostFragment(html) ==
    /\ html # EmptyHTML
    /\ html[1] \in {DisabledHTML[1], FailedHTML(0)[1], "table"}

\* every line of the page shows 0
allZero(lines) == \A i \in DOMAIN lines : lines[i].value = 0

\* C23 as stated: before any export the plain counters, gauges and cached
\* percentiles that the page shows are 0, and once Start has been called
\* every fragment CostSnippet reads is the disabled fragment, the
\* failed-to-fetch fragment or a cost table, never the empty one
C23_NeverEmptyFragment ==
    /\ [](exported = <<>> =>
            /\ articlesServed = 0 /\ reqBlocked = 0
            /\ \A k \in DOMAIN ScalarLabels : scalarOf(k) = 0
            /\ allZero(page))
    /\ [][(kpc # "idle" /\ qpc = "read" /\ qpc' = "runlock")
             => isCostFragment(qhtml')]_vars

\* ---- article views
shardOf(m, k) == IF shardMap(m)[k] = NoShard THEN 0 ELSE shardValue[shardMap(m)[k]]

\* no request is being handled, the reader collected after the last one was
\* answered, and Export has taken all of the collection and returned
exportedAfterRequests ==
    /\ apc = "idle"
    /\ collected.answered = sumOver(answered, Requested)
    /\ pointsPending = {}
    /\ pc[1] = "idle"
    /\ ret[1] = "nil"

\* C24: after an export cycle that follows the requests answered so far, the
\* stored articles.served total is the number of requests answered with an
\* article, each article's shard holds the number of them for that article,
\* and the total is the sum of the shards; requests answered 404 are in none
C24_ViewsCounted ==
    exportedAfterRequests =>
        /\ articlesServed = sumOver(answered, Keys)
        /\ \A k \in Keys : shardOf("article", k) = answered[k]
        /\ articlesServed = sumOver([k \in Keys |-> shardOf("article", k)], Keys)

C24_Witness ==
    /\ exportedAfterRequests
    /\ answered = [k \in Requested |-> IF k = "x" THEN 2 ELSE IF k = "missing" THEN 1 ELSE 0]
    /\ articlesServed = 2
    /\ shardOf("article", "x") = 2

\* ---- the histogram mapping
\* the exporter is in the bucket loop or the recompute of a histogram point
inHistogram == pc[1] \in {"h_bucket", "u_lock", "u_total", "u_walk", "u_store", "u_unlock"}

\* the exporter takes one iteration of the bucket loop
bucketIteration == pc[1] = "h_bucket" /\ (pc'[1] # "h_bucket" \/ cur'[1].i # cur[1].i)

\* whole milliseconds of a bound of us microseconds
wholeMs(us) == CHOOSE ms \in 0..(us + 1) : ms * 1000 <= us /\ us < (ms + 1) * 1000

\* the bucket counts with the count of bucket ms replaced, if there is one
withCount(ms, count) ==
    [b \in Buckets |-> IF reqFreqBound[b] = ms THEN count ELSE reqDurBucketValues[b]]

\* C25: in the bucket loop each bound is converted to whole milliseconds and
\* its count is stored into the bucket of exactly that boundary; when there
\* is no such bucket nothing at all is stored and no error is raised; the
\* total count of the point is stored whatever its bounds are
C25_OnlyMatchingBoundsStored ==
    /\ [](inHistogram =>
            /\ reqDurTotalCount = (IF cur[1].point.count > MaxInt64 THEN MaxInt64
                                   ELSE cur[1].point.count)
            /\ fault = "none")
    /\ [][(bucketIteration /\ cur[1].i <= Len(cur[1].point.bucketCounts)) =>
             LET P == cur[1].point
                 i == cur[1].i
                 ms == wholeMs(P.bounds[i])
                 count == IF P.bucketCounts[i] > MaxInt64 THEN MaxInt64 ELSE P.bucketCounts[i]
             IN  /\ reqDurBucketValues' = withCount(ms, count)
                 /\ (\A b \in Buckets : reqFreqBound[b] # ms) => UNCHANGED storageVars
                 /\ UNCHANGED <<reqDurTotalCount, cacheVars, gaugeVars, sumVars, shardVars>>
                 /\ fault' = "none"]_vars
    /\ [][(pc[1] = "u_unlock" /\ pc'[1] = "metrics") =>
             (fault' = "none" /\ ret'[1] = "none"
                 /\ UNCHANGED <<histVars, cacheVars, gaugeVars, sumVars, shardVars>>)]_vars

\* the point of 1, 3 and 7 ms has been exported onto the counts of the point
\* of 5 and 10 ms: the total is the new one, the counts are the old ones
C25_Witness ==
    /\ pc[1] = "idle"
    /\ ret[1] = "nil"
    /\ Len(exported) = 2
    /\ exported[1].kind = "histogram" /\ exported[1].points = <<PointFirst>>
    /\ exported[2].kind = "histogram" /\ exported[2].points = <<PointInvalid>>
    /\ reqDurTotalCount = 5
    /\ reqDurBucketValues = [ZeroBuckets EXCEPT ![1] = 3, ![2] = 2]

\* C26: a bound whose index has no bucket count is skipped, nothing is stored
\* for it and nothing is read out of range; the bounds before it are stored
\* as usual, the total count is stored, and Export goes on to return nil
C26_ShortCountsSkipped ==
    /\ [][(bucketIteration /\ cur[1].i > Len(cur[1].point.bucketCounts)) =>
             (UNCHANGED storageVars /\ fault' = "none")]_vars
    /\ []((inHistogram /\ pc[1] # "h_bucket"
              /\ Len(cur[1].point.bounds) > Len(cur[1].point.bucketCounts)) =>
             /\ reqDurTotalCount = cur[1].point.count
             /\ \A i \in 1..Len(cur[1].point.bucketCounts) :
                   \A b \in Buckets :
                      reqFreqBound[b] = wholeMs(cur[1].point.bounds[i]) =>
                         reqDurBucketValues[b] = cur[1].point.bucketCounts[i]
             /\ fault = "none")

C26_Witness ==
    /\ pc[1] = "idle"
    /\ ret[1] = "nil"
    /\ Len(exported) = 1
    /\ exported[1].kind = "histogram" /\ exported[1].points = <<PointShortCounts>>
    /\ reqDurTotalCount = 5
    /\ reqDurBucketValues = [ZeroBuckets EXCEPT ![1] = 3, ![2] = 2]

\* ---- conversions of unsigned values
\* min(v, math.MaxInt64)
saturated(v) == IF v < MaxInt64 THEN v ELSE MaxInt64

\* C27: every unsigned value converted for storage is stored as
\* min(v, MaxInt64): the heap and stack sizes the sampler records, the total
\* count and the bucket counts of a histogram point; nothing stored is
\* negative, and neither the sampler nor the export stops on such a value
C27_UnsignedSaturated ==
    /\ [](rec # NoSample =>
            /\ rec.heap = saturated(rec.heapRead)
            /\ rec.stack = saturated(rec.stackRead)
            /\ rec.heap >= 0 /\ rec.stack >= 0)
    /\ [](inHistogram => reqDurTotalCount = saturated(cur[1].point.count))
    /\ [](reqDurTotalCount >= 0 /\ \A b \in Buckets : reqDurBucketValues[b] >= 0)
    /\ [][(bucketIteration /\ cur[1].i <= Len(cur[1].point.bucketCounts)) =>
             reqDurBucketValues' =
                withCount(wholeMs(cur[1].point.bounds[cur[1].i]),
                          saturated(cur[1].point.bucketCounts[cur[1].i]))]_vars
    /\ []((inHistogram => fault = "none") /\ (mpc = "done" => ctxDone))
    /\ [][(mpc = "select" /\ mpc' # "select") =>
             (mpc' = (IF ctxDone THEN "done" ELSE "sleep"))]_vars

\* the sampler has recorded sizes above math.MaxInt64 and is back at its
\* select; a histogram with such counts has been exported and Export returned
C27_Witness ==
    /\ rec # NoSample
    /\ rec.heapRead = MaxUint64 /\ rec.heap = MaxInt64
    /\ rec.stackRead = MaxInt64 + 1 /\ rec.stack = MaxInt64
    /\ mpc = "select" /\ ~ctxDone
    /\ pc[1] = "idle" /\ ret[1] = "nil"
    /\ Len(exported) = 1
    /\ exported[1].kind = "histogram" /\ exported[1].points = <<PointHuge>>
    /\ reqDurTotalCount = MaxInt64
    /\ reqDurBucketValues[boundaryToIndex(10)] = MaxInt64

\* ---- the cells a point is stored into
\* the shard of key k in map m: whether there is one, and what it holds
cell(m, k) ==
    IF shardMap(m)[k] = NoShard THEN [present |-> FALSE, value |-> 0]
    ELSE [present |-> TRUE, value |-> shardValue[shardMap(m)[k]]]

shardCells == {"article", "blocked"} \X Keys

\* the exporter is between taking an attributed sum point and its store
storingShard == pc[1] \in {"va_lookup", "va_assign", "va_assigning", "va_init", "store"}

\* the point the exporter took in this step
pointTaken == exported'[Len(exported')]

gaugeCell(name) ==
    CASE name = "goroutine.count" -> numGoRo
      [] name = "blog.heap.alloc.bytes" -> heapAlloc
      [] name = "blog.stack.alloc.bytes" -> stackAlloc

totalCell(name) ==
    CASE name = "articles.served" -> articlesServed
      [] name = "request.blocked" -> reqBlocked
      [] name = "robotic.visitors" -> roboticVisitors

\* the attribute a sum of this name is sharded by
shardAttribute(name) ==
    CASE name = "articles.served" -> "article"
      [] name = "request.blocked" -> "blocked"
      [] OTHER -> "no such attribute"

\* C28: a recognised gauge point overwrites its named gauge and nothing else;
\* a recognised sum point without the attribute of its name overwrites the
\* unattributed total of that name and nothing else; a sum point with the
\* attribute is stored into the shard of the attribute value only: no total,
\* no gauge, no bucket, no cached percentile and no other shard changes from
\* the moment the point is taken until its value is in the shard
C28_OnePointOneCell ==
    /\ [][(Len(exported') = Len(exported) + 1 /\ pointTaken.kind = "gauge"
             /\ recognised("gauge", pointTaken.name)) =>
            /\ \A name \in {"goroutine.count", "blog.heap.alloc.bytes",
                            "blog.stack.alloc.bytes"} :
                  gaugeCell(name)' = IF name = pointTaken.name THEN pointTaken.value
                                     ELSE gaugeCell(name)
            /\ UNCHANGED <<histVars, cacheVars, sumVars, shardVars>>]_vars
    /\ [][(Len(exported') = Len(exported) + 1 /\ pointTaken.kind = "sum"
             /\ recognised("sum", pointTaken.name)
             /\ pointTaken.attr.key # shardAttribute(pointTaken.name)) =>
            /\ \A name \in {"articles.served", "request.blocked", "robotic.visitors"} :
                  totalCell(name)' = IF name = pointTaken.name THEN pointTaken.value
                                     ELSE totalCell(name)
            /\ UNCHANGED <<histVars, cacheVars, gaugeVars, shardVars>>]_vars
    /\ [][(Len(exported') = Len(exported) + 1 /\ pointTaken.kind = "sum"
             /\ recognised("sum", pointTaken.name)
             /\ pointTaken.attr.key = shardAttribute(pointTaken.name)) =>
            /\ storingShard'
            /\ cur'[1].key = pointTaken.attr.val /\ cur'[1].value = pointTaken.value
            /\ UNCHANGED <<histVars, cacheVars, gaugeVars, sumVars, shardVars>>]_vars
    /\ [][storingShard =>
            /\ UNCHANGED <<histVars, cacheVars, gaugeVars, sumVars>>
            /\ \A c \in shardCells :
                  IF c # <<mapOfTask(1), cur[1].key>>
                  THEN cell(c[1], c[2])' = cell(c[1], c[2])
                  ELSE ~storingShard' =>
                          cell(c[1], c[2])' = [present |-> TRUE, value |-> cur[1].value]
            /\ fault' = "none"]_vars

\* an attributed point of 2 for article "x" was stored after an unattributed
\* one of 1: the shard holds 2, the total still 1
C28_Witness ==
    /\ Len(exported) = 2
    /\ exported[1] = [kind |-> "sum", name |-> "articles.served", value |-> 1, attr |-> NoAttr]
    /\ exported[2] = [kind |-> "sum", name |-> "articles.served", value |-> 2,
                      attr |-> [key |-> "article", val |-> "x"]]
    /\ ~storingShard
    /\ cell("article", "x") = [present |-> TRUE, value |-> 2]
    /\ articlesServed = 1
    /\ cell("article", "y").present = FALSE

\* ---- the query surface
\* everything the writers store: the histogram, the cached percentiles, the
\* gauges, the totals, the shard maps and their shards, the cost fragment and
\* its counters, the span slot
storedData ==
    <<histVars, cacheVars, gaugeVars, sumVars, servedCountPerArticle, reqBlockedByReason,
      shardValue, cfg, costHTML, costSuccess, costFailure, latestSpan, spanChan>>

\* a step of writeMetricSnippet, of CostSnippet or of GetLastSpanJSON
readerStep ==
    \/ rpc' # rpc \/ rd' # rd \/ page' # page
    \/ qpc' # qpc \/ served' # served
    \/ jpc' # jpc \/ jret' # jret

\* C29: no step of the three read paths changes a counter, a gauge, a shard
\* map or shard, a histogram bucket or total, a cached percentile, the cost
\* fragment or the span slot
C29_ReadersStoreNothing == [][readerStep => UNCHANGED storedData]_vars

\* all three handlers have answered from loaded storage, the page with the
\* shard of "x", the cost table and the span, and the storage is as it was
C29_Witness ==
    /\ rpc = "idle" /\ page # <<>>
    /\ \E n \in 1..Len(page) : page[n] = Line("blog.articles.served.", "x", 2)
    /\ qpc = "idle" /\ served.n > 0 /\ served.html = generateCostHTML("costs-a", 1)
    /\ jpc = "idle" /\ jret = marshal(Slot(Span(1, TRUE)))
    /\ costHTML = generateCostHTML("costs-a", 1)
    /\ latestSpan = Slot(Span(1, TRUE))
    /\ shardValue = <<2>> /\ reqDurTotalCount = 5 /\ reqDur99 = 10

\* ---- two Export calls carrying the histogram
\* task e has stored the total count of its point and its recompute has not
\* yet stored the last cached percentile
midHistogram(e) == pc[e] \in {"h_bucket", "u_lock", "u_total", "u_walk", "u_store"}

\* task e stores the total count, or takes one iteration of its bucket loop
histStoreBy(e) ==
    \/ pc[e] = "metrics" /\ pc'[e] \in {"h_bucket", "u_lock"}
    \/ pc[e] = "h_bucket" /\ (pc'[e] # "h_bucket" \/ cur'[e].i # cur[e].i)

\* C30: no total or bucket store of one Export call falls between the first
\* store and the end of the percentile recompute of another call, and the
\* histogram a recompute reads is the whole point of the call that reads it
C30_ExportsSerialized ==
    /\ [][\A e \in Exporters, o \in Exporters :
            (e # o /\ histStoreBy(e)) => ~midHistogram(o)]_vars
    /\ [](\A e \in Exporters :
            pc[e] \in {"u_total", "u_walk"} =>
               /\ reqDurTotalCount = saturated(cur[e].point.count)
               /\ \A i \in 1..Len(cur[e].point.bounds) :
                     bucketOfBound(cur[e].point, i) # 0 =>
                        reqDurBucketValues[bucketOfBound(cur[e].point, i)]
                           = saturated(cur[e].point.bucketCounts[i]))

\* ---- the percentile recompute under concurrent exports
\* task e is inside UpdateServerFreqHistogram with the lock taken
recomputing(e) == pc[e] \in {"u_total", "u_walk", "u_store", "u_unlock"}

\* task e takes a step
stepOf(e) == pc'[e] # pc[e] \/ cur'[e] # cur[e]

\* C31: no two recomputes are in progress at once; a recompute stores the
\* four values of the one result it computed, and when it has stored the
\* fourth the cache is that result; once every Export call has returned the
\* cache holds the percentiles of the histogram as it is stored then
C31_RecomputeSerialized ==
    /\ [](\A e \in Exporters, o \in Exporters :
            (e # o /\ recomputing(e)) => ~recomputing(o))
    /\ [](\A e \in Exporters : recomputing(e) <=> freqUpdateMu = e)
    /\ [][\A e \in Exporters :
            (pc[e] = "u_store" /\ stepOf(e)) =>
               /\ cached'[cur[e].i] = cur[e].results[cur[e].i]
               /\ \A k \in 1..4 : k # cur[e].i => cached'[k] = cached[k]
               /\ pc'[e] = "u_store" => cur'[e].results = cur[e].results
               /\ pc'[e] # "u_store" => cached' = cur[e].results]_vars
    /\ []((\A e \in Exporters : pc[e] = "idle") =>
            cached = calcPercentiles(reqDurTotalCount, reqDurBucketValues))

\* both calls exported a histogram, the one of 15 stored last, and both
\* returned
C31_Witness ==
    /\ \A e \in Exporters : pc[e] = "idle" /\ ret[e] = "nil"
    /\ Len(exported) = 2
    /\ exported[1].kind = "histogram" /\ exported[1].points = <<PointFirst>>
    /\ exported[2].kind = "histogram" /\ exported[2].points = <<PointSecond>>
    /\ reqDurTotalCount = PointSecond.count
    /\ cached = calcPercentiles(PointSecond.count, reqDurBucketValues)
    /\ cached # <<0, 0, 0, 0>>

\* ---- the cost-fragment lock
\* a CostSnippet call could not take its read lock now
readersBlocked == costMu.writer \/ costMu.pending

\* C32: while a fetch is in progress, the first or a later one, the
\* refresher neither holds nor waits for the cost-fragment lock; it holds
\* the lock only from its Lock to its Unlock, assigns the fragment once in
\* between, and always releases, so blocked readers get through
C32_NoFetchUnderLock ==
    /\ [](kpc \in {"fetch", "fetching", "wait", "check", "idle", "done"} => ~readersBlocked)
    /\ [](costMu.writer => kpc \in {"store", "count", "unlock"})
    /\ [][(costMu.writer /\ costMu'.writer) =>
             /\ Len(stores') <= Len(stores) + 1
             /\ (kpc # "store" => stores' = stores)
             /\ kfetch' = kfetch /\ nFetches' = nFetches]_vars
    /\ (readersBlocked ~> ~readersBlocked)

\* a later fetch is in progress and a CostSnippet call is reading the
\* fragment the first fetch gave
C32_Witness ==
    /\ kpc = "fetching" /\ ksnap.periodic
    /\ qpc = "read" /\ costMu.readers = 1
    /\ costHTML = generateCostHTML("costs-a", 1)

\* ---- the shard sets
\* the keys map m holds
keysIn(m) == {k \in Keys : shardMap(m)[k] # NoShard}

\* C33: a key that is in a shard map is in it in every later state; a key
\* enters a map with a shard holding 0, at the first export of its attribute
\* value, however many keys the map holds already
C33_ShardsOnlyGrow ==
    /\ [][\A c \in shardCells :
            /\ cell(c[1], c[2]).present => cell(c[1], c[2])'.present
            /\ (~cell(c[1], c[2]).present /\ cell(c[1], c[2])'.present) =>
                  cell(c[1], c[2])'.value = 0]_vars
    /\ [](\A e \in Exporters :
            (pc[e] \in {"va_init", "store"}) => cell(mapOfTask(e), cur[e].key).present)
    /\ [][\A e \in Exporters :
            (pc[e] = "va_lookup" /\ pc'[e] # "va_lookup"
                /\ ~cell(mapOfTask(e), cur[e].key).present) => pc'[e] = "va_assign"]_vars
    /\ [](\A e \in Exporters : pc[e] = "va_assigning" => ENABLED ValidateAssignEnd(e))

\* the article map holds every key there is, "y" created after "x", and the
\* value stored for "x" is still there
C33_Witness ==
    /\ keysIn("article") = Keys
    /\ servedCountPerArticle["x"] < servedCountPerArticle["y"]
    /\ cell("article", "x").value > 0
    /\ cell("article", "y").value = 0

\* ---- the single pass and the single percentile
\* C34: on one histogram state the four values calcPercentiles returns are
\* the values calcPercentile returns for 50, 90, 95 and 99
C34_SinglePassAgrees ==
    (pctOut[1] # NotCalled /\ pctsOut # <<>>) =>
       \A k \in 1..4 : pctsOut[k] = pctOut[k].val /\ pctOut[k].err = "nil"

\* ---- where a walk stops
\* the bucket at which calcPercentile's loop returns, 0 when it runs through
RECURSIVE stopBucket(_, _, _, _)
stopBucket(buckets, target, i, runningCount) ==
    IF i > NumBuckets THEN 0
    ELSE IF reachesTarget(runningCount + buckets[i], target) THEN i
    ELSE stopBucket(buckets, target, i + 1, runningCount + buckets[i])

\* the bucket at which the walk for the k-th percentile stops on the state
stopOf(k) ==
    stopBucket(reqDurBucketValues, targetCount(reqDurTotalCount, Percentiles[k]), 1, 0)

\* C35: for a total count above 0 the walk of each percentile stops at a
\* bucket that holds observations, the value returned is above that bucket's
\* lower boundary and at most its upper boundary, and every value returned
\* is in 0..10000
C35_StopBucketBounds ==
    (pctOut[1] # NotCalled /\ reqDurTotalCount > 0) =>
       \A k \in 1..4 :
          /\ stopOf(k) # 0 =>
                /\ reqDurBucketValues[stopOf(k)] > 0
                /\ previousBound(stopOf(k)) < pctOut[k].val
                /\ pctOut[k].val <= reqFreqBound[stopOf(k)]
          /\ pctOut[k].val \in 0..lastBound

\* ---- the cached percentiles between the stores of a recompute
\* C36: in every state, the states between the four stores of a recompute
\* included, the cached percentiles are in ascending order
C36_CacheAlwaysOrdered ==
    reqDur50 <= reqDur90 /\ reqDur90 <= reqDur95 /\ reqDur95 <= reqDur99

\* ---- the target rank
\* C37: for the total count of the state and each of the percentiles 50, 90,
\* 95 and 99 the int64 product totalCount*p is the product of the integers,
\* so the target rank, the product over 100, lies in 0..totalCount
C37_TargetNeverWraps ==
    (pctOut[1] # NotCalled \/ pctsOut # <<>>) =>
       \A k \in 1..4 :
          /\ targetCount(reqDurTotalCount, Percentiles[k]) = reqDurTotalCount * Percentiles[k]
          /\ targetCount(reqDurTotalCount, Percentiles[k]) >= 0
          /\ targetCount(reqDurTotalCount, Percentiles[k]) <= 100 * reqDurTotalCount


\* the tasks that take a guard
guardTasks ==
    ({"exporter"} \X Exporters)
       \cup ({"consumer", "refresher", "spanReader", "costReader"} \X {NoTask})

\* the guards a task holds: an exporter takes freqUpdateMu only, the consumer
\* and GetLastSpanJSON spanMu only, the refresher and CostSnippet costMu only
guardsHeld(t) ==
        {g \in {"freqUpdateMu", "spanMu", "costMu"} :
            \/ g = "freqUpdateMu" /\ t[1] = "exporter" /\ freqUpdateMu = t[2]
            \/ g = "spanMu" /\ t[1] = "consumer" /\ spanMu.writer
            \/ g = "spanMu" /\ t[1] = "spanReader" /\ spanMu.readers > 0
            \/ g = "costMu" /\ t[1] = "refresher" /\ costMu.writer
            \/ g = "costMu" /\ t[1] = "costReader" /\ costMu.readers > 0}

\* the steps a task has left, at most, before it releases the guard it took:
\* 0 outside the section between its Lock and its Unlock
stepsToRelease(t) ==
        CASE t[1] = "exporter" ->
                (CASE pc[t[2]] = "u_total" -> NumBuckets + 6
                   [] pc[t[2]] = "u_walk" -> NumBuckets - cur[t[2]].i + 6
                   [] pc[t[2]] = "u_store" -> 6 - cur[t[2]].i
                   [] pc[t[2]] = "u_unlock" -> 1
                   [] OTHER -> 0)
          [] t[1] = "consumer" ->
                (CASE cpc = "store_head" -> 3
                   [] cpc = "store_tail" -> 2
                   [] cpc = "unlock" -> 1
                   [] OTHER -> 0)
          [] t[1] = "refresher" ->
                (CASE kpc = "store" -> 3
                   [] kpc = "count" /\ ~ksnap.periodic -> 2
                   [] kpc = "unlock" -> 1
                   [] OTHER -> 0)
          [] t[1] = "spanReader" ->
                (CASE jpc = "read_head" -> 3
                   [] jpc = "read_tail" -> 2
                   [] jpc = "runlock" -> 1
                   [] OTHER -> 0)
          [] t[1] = "costReader" ->
                (CASE qpc = "read" -> 2
                   [] qpc = "runlock" -> 1
                   [] OTHER -> 0)

\* the task can take a step
canStep(t) ==
        CASE t[1] = "exporter" -> ENABLED recomputeStep(t[2])
          [] t[1] = "consumer" -> ENABLED consumerGuarded
          [] t[1] = "refresher" -> ENABLED refresherGuarded
          [] t[1] = "spanReader" -> ENABLED (LastSpanRLock \/ spanReaderInside)
          [] t[1] = "costReader" -> ENABLED (CostSnippetRLock \/ costReaderInside)

\* the task is at a Lock or RLock call
atLock(t) ==
        CASE t[1] = "exporter" -> pc[t[2]] = "u_lock"
          [] t[1] = "consumer" -> cpc \in {"lock", "locking"}
          [] t[1] = "refresher" -> kpc \in {"lock", "locking"}
          [] t[1] = "spanReader" -> jpc = "idle"
          [] t[1] = "costReader" -> qpc = "idle"

\* the guard a task takes
guardOf(t) ==
    CASE t[1] = "exporter" -> "freqUpdateMu"
      [] t[1] \in {"consumer", "spanReader"} -> "spanMu"
      [] t[1] \in {"refresher", "costReader"} -> "costMu"

\* the step is one of task t
moved(t) ==
    CASE t[1] = "exporter" -> stepOf(t[2])
      [] t[1] = "consumer" -> cpc' # cpc
      [] t[1] = "refresher" -> kpc' # kpc
      [] t[1] = "spanReader" -> jpc' # jpc
      [] t[1] = "costReader" -> qpc' # qpc

\* C38: a task holds a guard exactly while it is between its Lock and its
\* Unlock, and never two; a task holding a guard can always take its next
\* step and every step it takes brings its Unlock nearer; a task at a Lock
\* that cannot go on waits for a task that holds that guard or, a reader,
\* for the writer that has announced itself and can go on
C38_GuardsNeverDeadlock ==
    /\ [](\A t \in guardTasks :
            /\ Cardinality(guardsHeld(t)) <= 1
            /\ guardsHeld(t) # {} <=> stepsToRelease(t) > 0
            /\ stepsToRelease(t) > 0 => canStep(t)
            /\ (atLock(t) /\ ~canStep(t)) =>
                  \E o \in guardTasks :
                     /\ o # t /\ guardOf(o) = guardOf(t) /\ canStep(o)
                     /\ stepsToRelease(o) > 0 \/ atLock(o))
    /\ [](~(spanMu.writer /\ spanMu.readers > 0) /\ ~(costMu.writer /\ costMu.readers > 0))
    /\ [][\A t \in guardTasks :
            stepsToRelease(t) > 0 =>
               IF moved(t)
               THEN stepsToRelease(t)' < stepsToRelease(t)
               ELSE stepsToRelease(t)' = stepsToRelease(t)]_vars

\* an exporter is inside its recompute while the other one waits, the
\* consumer and the refresher have announced themselves and wait for the
\* readers that are inside to leave
C38_Witness ==
    /\ \E e \in Exporters, o \in Exporters :
          freqUpdateMu = e /\ pc[e] = "u_walk" /\ pc[o] = "u_lock"
    /\ cpc = "locking" /\ spanMu.pending /\ spanMu.readers = 1
    /\ kpc = "locking" /\ costMu.pending /\ costMu.readers = 1

\* the sends made so far, from outside the listener and from its sighup case
sends == upd.queued + upd.dropped

\* the step is a TriggerUpdate call
triggering == sends' = sends + 1

\* C39: a TriggerUpdate call can always be made and ends in one step, so it
\* never waits; updateChan never holds more than one update; a call made
\* while one is pending leaves the channel as it is, and one made while none
\* is pending leaves one; the listener takes an update only from its select
\* and calls updateContent once for each it took; and every update queued
\* is taken and its updateContent call returns, unless the context is
\* cancelled
C39_SinglePendingUpdate ==
    /\ [](updateChan \in 0..UpdateChanCap)
    /\ [](upd.triggers < MaxTriggers => ENABLED TriggerUpdate)
    /\ [](lpc = "sighup" => ENABLED ListenerTriggerUpdate)
    /\ [][triggering =>
            /\ updateChan' = UpdateChanCap
            /\ upd'.dropped = upd.dropped + (IF updateChan = UpdateChanCap THEN 1 ELSE 0)
            /\ upd'.queued = upd.queued + (IF updateChan = UpdateChanCap THEN 0 ELSE 1)
            /\ upd'.consumed = upd.consumed /\ upd'.refreshes = upd.refreshes]_vars
    /\ [](upd.queued = upd.consumed + updateChan)
    /\ [](upd.consumed = upd.refreshes + (IF lpc = "updating" THEN 1 ELSE 0))
    /\ [][upd'.consumed # upd.consumed =>
            /\ lpc = "select" /\ lpc' = "updating"
            /\ updateChan = UpdateChanCap /\ updateChan' = 0
            /\ upd'.consumed = upd.consumed + 1]_vars
    /\ \A n \in 1..(MaxTriggers + MaxSignals) :
          (upd.queued = n) ~> (upd.refreshes >= n \/ ctxDone)

\* two calls were dropped behind a pending update, which the listener then
\* took and refreshed the content for, once
C39_Witness ==
    /\ upd.dropped = 2
    /\ upd.queued = 1
    /\ upd.consumed = 1
    /\ upd.refreshes = 1
    /\ updateChan = 0
    /\ ~ctxDone

====
